---- MODULE Spec2Model ----
(***************************************************************************)
(* A model of depgrapher (github.com/SimplicityApks/depgrapher): the       *)
(* set-backed graph.Graph (node map + edge set), its synchronised wrapper  *)
(* graph.Synced, the breadth-first GetDependencyGraph walk and the         *)
(* line-oriented ingestion (FromScanner / scanDependencies).               *)
(***************************************************************************)
EXTENDS Integers, Sequences, FiniteSets, TLC

VARIABLES
    \* Spec: one Graph and the last call made on it
    g, last,
    \* SpecCopy: the maps on the heap, the original Graph, its copy, the last step
    heap, orig, copy, clast,
    \* SpecWalk: one call of GetDependencyGraph: the graph and the root it is
    \* called with, its position, the work list edges, the loop index i, the
    \* result graph, and how often each name was put into result.nodes
    wg, wroot, wpc, wedges, wi, wres, wadds,
    \* SpecSync: the Graph embedded in one graph.Synced, its RWMutex, and each
    \* goroutine's position in the method of Synced it is calling
    sg, mu, sp,
    \* SpecIngest, SpecScan: one call of FromScanner: the reader behind the
    \* scanner, the bufio.Scanner, the graph being built, activeSyntaxes (the
    \* set of its keys), the position of the call, the error it returns
    \* and the line scanner.Text() gave last; the syntaxes it is called with,
    \* the lines scanned so far, and the syntaxes (indices) whose edge markers
    \* were looked for in the last line
    iin, iscan, ig, iactive, ipc, ierr, iline, isyn, ilines, itried,
    \* SpecScan: the worker pool of Synced.FromScanner: numWorkers, the tasks
    \* channel and whether it is closed, each worker's position and the edges
    \* it has still to add, the WaitGroup counter, the body waiting to be sent
    \* and the bodies sent so far
    numWorkers, tasks, closed, wk, waitGroup, pend, dispatched,
    \* SpecRender, SpecRenderPar: the graph that is rendered, the global
    \* nodeFinished, and for each caller of PrintDepTree its position, the
    \* calls of printDepTreeLevel on its stack, the name fields it has
    \* rendered and how often it has gone into each node's dependencies
    rgraph, nodeFinished, rp,
    \* SpecWrite: the graph WriteDot is given (the text it writes is read
    \* back by FromScanner)
    wsrc,
    \* SpecParse: the string syntax.Parse is given and what the call gave
    pin, pout,
    \* SpecLayout: the graph, the start node and the order of the range over
    \* the node map that one call of printDepTreeLevel is given, and the rows
    \* and the width it returned
    lin, lout

graphVars == <<g, last>>
copyVars == <<heap, orig, copy, clast>>
walkVars == <<wg, wroot, wpc, wedges, wi, wres, wadds>>
syncVars == <<sg, mu, sp>>
ingestVars == <<iin, iscan, ig, iactive, ipc, ierr, iline, isyn, ilines, itried>>
scanVars == <<numWorkers, tasks, closed, wk, waitGroup, pend, dispatched>>
renderVars == <<rgraph, nodeFinished, rp>>
writeVars == <<wsrc>>
parseVars == <<pin, pout>>
layoutVars == <<lin, lout>>
vars == <<graphVars, copyVars, walkVars, syncVars, ingestVars, scanVars, renderVars, writeVars, parseVars, layoutVars>>

\* the variables a specification does not use keep the value "off"
GraphOff == g = "off" /\ last = "off"
CopyOff == heap = "off" /\ orig = "off" /\ copy = "off" /\ clast = "off"
SyncOff == sg = "off" /\ mu = "off" /\ sp = "off"
IngestOff ==
    /\ iin = "off" /\ iscan = "off" /\ ig = "off" /\ iactive = "off"
    /\ ipc = "off" /\ ierr = "off" /\ iline = "off"
    /\ isyn = "off" /\ ilines = "off" /\ itried = "off"
ScanOff ==
    /\ numWorkers = "off" /\ tasks = "off" /\ closed = "off" /\ wk = "off"
    /\ waitGroup = "off" /\ pend = "off" /\ dispatched = "off"
RenderOff == rgraph = "off" /\ nodeFinished = "off" /\ rp = "off"
WriteOff == wsrc = "off"
ParseOff == pin = "off" /\ pout = "off"
LayoutOff == lin = "off" /\ lout = "off"
WalkOff ==
    /\ wg = "off" /\ wroot = "off" /\ wpc = "off" /\ wedges = "off"
    /\ wi = "off" /\ wres = "off" /\ wadds = "off"

(***************************************************************************)
(* Bounds.                                                                 *)
(***************************************************************************)
\* number of distinct node names the graph operations draw from
MaxNames == 2
\* longest variadic argument list of AddNode / AddNodes
MaxArgs == 2

\* a name is a Go string: a sequence of one-character strings
\* number of distinct node names, and of edges, of the graphs GetDependencyGraph
\* is called on
MaxWalkNames == 3
MaxWalkEdges == 4
\* number of goroutines that call methods of one graph.Synced
MaxProcs == 2
\* longest text FromScanner is given (besides the text of the test)
MaxTextLen == 5
\* number of lines of the texts Synced.FromScanner is given, and the largest
\* runtime.GOMAXPROCS(0)
MaxScanLines == 3
\* number of lines of the texts in the dot language
MaxDotLines == 4
MaxWorkers == 2
\* longest edge slice of the list-backed versions of Graph
MaxListEdges == 3
\* longest node slice of the version of Graph that keeps the nodes in a slice
MaxListNodes == 2

NameOf == << <<"a">>, <<"b">>, <<"c">>, <<"d">>, <<"e">> >>
Names == {NameOf[i] : i \in 1..MaxNames}

RECURSIVE SeqsUpTo(_, _)
\* all sequences over S of length at most n
SeqsUpTo(S, n) ==
    IF n = 0 THEN {<< >>}
    ELSE LET shorter == SeqsUpTo(S, n - 1)
         IN shorter \cup {Append(s, x) : s \in {t \in shorter : Len(t) = n - 1}, x \in S}

(***************************************************************************)
(* Go maps: a map is a function whose domain is the set of present keys.   *)
(***************************************************************************)
EmptyMap == [k \in {} |-> k]
MapPut(m, k, v) == [x \in (DOMAIN m) \cup {k} |-> IF x = k THEN v ELSE m[x]]
MapDelete(m, k) == [x \in (DOMAIN m) \ {k} |-> m[x]]

(***************************************************************************)
(* Nodes and edges (graph.go: type Node fmt.Stringer, type node string,    *)
(* intnode of the tests, type edge struct{source, target string}).         *)
(***************************************************************************)
NodeKinds == {"node"}
MkNode(name, kind) == [name |-> name, kind |-> kind]
\* the nil Node returned for an absent name
NilNode == [name |-> << >>, kind |-> "nil"]
String(n) == n.name
AllNodes == {MkNode(n, k) : n \in Names, k \in NodeKinds}

MkEdge(s, t) == [source |-> s, target |-> t]

\* the variadic argument lists the client passes: targetNames ...string, nodes ...Node
TargetLists == SeqsUpTo(Names, MaxArgs)
NodeLists == SeqsUpTo(AllNodes, MaxArgs)

\* graph.New(): empty node map, empty edge set
New == [nodes |-> EmptyMap, edges |-> {}]

(***************************************************************************)
(* Graph operations, as functions from a graph value to the graph value    *)
(* after the call (and the returned value or the panic).                   *)
(***************************************************************************)
RECURSIVE AddNodeTargetsSkipping(_, _, _)
\* the loop going on behind a target that is not registered
AddNodeTargetsSkipping(gr, nodeName, targetNames) ==
    IF targetNames = << >> THEN [g |-> gr, panic |-> FALSE]
    ELSE IF Head(targetNames) \notin DOMAIN gr.nodes
    THEN [g |-> AddNodeTargetsSkipping(gr, nodeName, Tail(targetNames)).g, panic |-> TRUE]
    ELSE AddNodeTargetsSkipping([gr EXCEPT !.edges = @ \cup {MkEdge(nodeName, Head(targetNames))}],
                                nodeName, Tail(targetNames))

RECURSIVE AddNodeTargets(_, _, _)
\* the loop of AddNode over targetNames: panics at the first target that is
\* not registered, keeping what was added before
AddNodeTargets(gr, nodeName, targetNames) ==
    IF targetNames = << >> THEN [g |-> gr, panic |-> FALSE]
    ELSE IF Head(targetNames) \notin DOMAIN gr.nodes THEN [g |-> gr, panic |-> TRUE]
    ELSE AddNodeTargets([gr EXCEPT !.edges = @ \cup {MkEdge(nodeName, Head(targetNames))}],
                        nodeName, Tail(targetNames))

AddNodeCheckFirst(gr, node, targetNames) ==
    LET registered == [gr EXCEPT !.nodes = MapPut(@, String(node), node)]
    IN IF \E k \in 1..Len(targetNames) : targetNames[k] \notin DOMAIN gr.nodes
       THEN [g |-> registered, panic |-> TRUE]
       ELSE AddNodeTargets(registered, String(node), targetNames)

AddNode(gr, node, targetNames) ==
    AddNodeTargets([gr EXCEPT !.nodes = MapPut(@, String(node), node)],
                   String(node), targetNames)

RECURSIVE AddNodes(_, _)
AddNodes(gr, nodes) ==
    IF nodes = << >> THEN gr
    ELSE AddNodes([gr EXCEPT !.nodes = MapPut(@, String(Head(nodes)), Head(nodes))],
                  Tail(nodes))

GetNode(gr, name) == IF name \in DOMAIN gr.nodes THEN gr.nodes[name] ELSE NilNode

GetNodes(gr) == {gr.nodes[n] : n \in DOMAIN gr.nodes}

\* delete(g.nodes, name) comes first, so the loop ranges over the other nodes only
RemoveNode(gr, name) ==
    IF name \notin DOMAIN gr.nodes THEN [g |-> gr, ret |-> FALSE]
    ELSE LET rest == MapDelete(gr.nodes, name)
             gone == {MkEdge(name, n) : n \in DOMAIN rest}
                        \cup {MkEdge(n, name) : n \in DOMAIN rest}
         IN [g |-> [nodes |-> rest, edges |-> gr.edges \ gone], ret |-> TRUE]

AddEdgeSourceOnly(gr, source, target) ==
    IF source \notin DOMAIN gr.nodes THEN [g |-> gr, panic |-> TRUE]
    ELSE [g |-> [gr EXCEPT !.edges = @ \cup {MkEdge(source, target)}], panic |-> FALSE]

AddEdge(gr, source, target) ==
    IF source \notin DOMAIN gr.nodes THEN [g |-> gr, panic |-> TRUE]
    ELSE IF target \notin DOMAIN gr.nodes THEN [g |-> gr, panic |-> TRUE]
    ELSE [g |-> [gr EXCEPT !.edges = @ \cup {MkEdge(source, target)}], panic |-> FALSE]

AddEdgeAndNodesNoTarget(gr, source, target) ==
    LET n1 == IF String(source) \in DOMAIN gr.nodes THEN gr.nodes
              ELSE MapPut(gr.nodes, String(source), source)
    IN [nodes |-> n1, edges |-> gr.edges \cup {MkEdge(String(source), String(target))}]

\* AddEdgeAndNodes storing the two nodes whether or not the names are present
AddEdgeAndNodesOverwriting(gr, source, target) ==
    [nodes |-> MapPut(MapPut(gr.nodes, String(source), source), String(target), target),
     edges |-> gr.edges \cup {MkEdge(String(source), String(target))}]

AddEdgeAndNodes(gr, source, target) ==
    LET sourceName == String(source)
        targetName == String(target)
        n1 == IF sourceName \in DOMAIN gr.nodes THEN gr.nodes
              ELSE MapPut(gr.nodes, sourceName, source)
        n2 == IF targetName \in DOMAIN n1 THEN n1
              ELSE MapPut(n1, targetName, target)
    IN [nodes |-> n2, edges |-> gr.edges \cup {MkEdge(sourceName, targetName)}]

HasEdge(gr, source, target) == MkEdge(source, target) \in gr.edges

RemoveEdgeBothWays(gr, source, target) ==
    [g |-> [gr EXCEPT !.edges = @ \ {MkEdge(source, target), MkEdge(target, source)}],
     ret |-> MkEdge(source, target) \in gr.edges]

RemoveEdge(gr, source, target) ==
    [g |-> [gr EXCEPT !.edges = @ \ {MkEdge(source, target)}],
     ret |-> MkEdge(source, target) \in gr.edges]

\* the nodes the loop over g.nodes appends (each registered name is visited once)
GetDependencies(gr, node) ==
    {gr.nodes[n] : n \in {c \in DOMAIN gr.nodes : MkEdge(node, c) \in gr.edges}}

GetDependants(gr, node) ==
    {gr.nodes[n] : n \in {c \in DOMAIN gr.nodes : MkEdge(c, node) \in gr.edges}}

(***************************************************************************)
(* Spec: a single-threaded client calling the operations of one Graph.     *)
(* last records the call that led to the current state: its name, its      *)
(* arguments, what it returned (or that it panicked) and the graph before   *)
(* it. A panic is fatal (nothing in the repository recovers from one): the *)
(* state it leaves is kept, and the client makes no further call.          *)
(***************************************************************************)
\* names: the string arguments, nodes: the Node arguments, in the order passed
Call(op, names, nodes, ret, panicked, pre) ==
    [op |-> op, names |-> names, nodes |-> nodes, ret |-> ret,
     panicked |-> panicked, pre |-> pre]

\* a returned bool ("none" stands for a call that returns nothing)
Ret(b) == IF b THEN "true" ELSE "false"

\* no call so far has panicked
Running == ~last.panicked

GraphInit ==
    /\ g = New
    /\ last = Call("New", << >>, << >>, "none", FALSE, New)

DoAddNode ==
    /\ Running
    /\ UNCHANGED <<copyVars, walkVars, syncVars, ingestVars, scanVars, renderVars, writeVars, parseVars, layoutVars>>
    /\ \E node \in AllNodes, targetNames \in TargetLists :
        LET r == AddNode(g, node, targetNames)
        IN /\ g' = r.g
           /\ last' = Call("AddNode", targetNames, <<node>>, "none", r.panic, g)

DoAddNodes ==
    /\ Running
    /\ UNCHANGED <<copyVars, walkVars, syncVars, ingestVars, scanVars, renderVars, writeVars, parseVars, layoutVars>>
    /\ \E nodes \in NodeLists :
        /\ g' = AddNodes(g, nodes)
        /\ last' = Call("AddNodes", << >>, nodes, "none", FALSE, g)

DoRemoveNode ==
    /\ Running
    /\ UNCHANGED <<copyVars, walkVars, syncVars, ingestVars, scanVars, renderVars, writeVars, parseVars, layoutVars>>
    /\ \E name \in Names :
        LET r == RemoveNode(g, name)
        IN /\ g' = r.g
           /\ last' = Call("RemoveNode", <<name>>, << >>, Ret(r.ret), FALSE, g)

DoAddEdge ==
    /\ Running
    /\ UNCHANGED <<copyVars, walkVars, syncVars, ingestVars, scanVars, renderVars, writeVars, parseVars, layoutVars>>
    /\ \E source \in Names, target \in Names :
        LET r == AddEdge(g, source, target)
        IN /\ g' = r.g
           /\ last' = Call("AddEdge", <<source, target>>, << >>, "none", r.panic, g)

DoAddEdgeAndNodes ==
    /\ Running
    /\ UNCHANGED <<copyVars, walkVars, syncVars, ingestVars, scanVars, renderVars, writeVars, parseVars, layoutVars>>
    /\ \E source \in AllNodes, target \in AllNodes :
        /\ g' = AddEdgeAndNodes(g, source, target)
        /\ last' = Call("AddEdgeAndNodes", << >>, <<source, target>>, "none", FALSE, g)

DoRemoveEdge ==
    /\ Running
    /\ UNCHANGED <<copyVars, walkVars, syncVars, ingestVars, scanVars, renderVars, writeVars, parseVars, layoutVars>>
    /\ \E source \in Names, target \in Names :
        LET r == RemoveEdge(g, source, target)
        IN /\ g' = r.g
           /\ last' = Call("RemoveEdge", <<source, target>>, << >>, Ret(r.ret), FALSE, g)

Init == GraphInit /\ CopyOff /\ WalkOff /\ SyncOff /\ IngestOff /\ ScanOff /\ RenderOff /\ WriteOff /\ ParseOff /\ LayoutOff

Next ==
    \/ DoAddNode
    \/ DoAddNodes
    \/ DoRemoveNode
    \/ DoAddEdge
    \/ DoAddEdgeAndNodes
    \/ DoRemoveEdge

Spec == Init /\ [][Next]_vars

(***************************************************************************)
(* SpecKinds: AddEdgeAndNodes and RemoveNode on one Graph, with nodes of   *)
(* two types that can have the same name: node("a") and a Node of another  *)
(* type whose String() is "a" too (as intnode of the tests).               *)
(***************************************************************************)
KindNodes == {MkNode(n, k) : n \in Names, k \in {"node", "intnode"}}

DoAddEdgeAndNodesOfKinds ==
    /\ Running
    /\ UNCHANGED <<copyVars, walkVars, syncVars, ingestVars, scanVars, renderVars, writeVars, parseVars, layoutVars>>
    /\ \E source \in KindNodes, target \in KindNodes :
        /\ g' = AddEdgeAndNodes(g, source, target)
        /\ last' = Call("AddEdgeAndNodes", << >>, <<source, target>>, "none", FALSE, g)

NextKinds == DoAddEdgeAndNodesOfKinds \/ DoRemoveNode

SpecKinds == Init /\ [][NextKinds]_vars

(***************************************************************************)
(* The list-backed versions of Graph. Both keep the edges in a slice,      *)
(* edges []edge with edge struct{source, target Node}; the later one keeps *)
(* the nodes in a map from names, the earlier one in a slice, nodes        *)
(* []Node. A slice is a sequence; index i of the code is i + 1 here.       *)
(***************************************************************************)
\* edge{}: the zero value
ZeroEdge == [source |-> NilNode, target |-> NilNode]

RECURSIVE removeIncidentEdges(_, _, _, _)
\* for i, e := range g.edges { if e.source == node || e.target == node {...} }
\* from index i on. The range runs over the indices of the slice as it was
\* when the loop began and reads e from its backing array, array; length is
\* len(g.edges) now. An index at or past len(g.edges) is out of range.
removeIncidentEdges(array, length, i, node) ==
    IF i >= Len(array) THEN [edges |-> SubSeq(array, 1, length), panic |-> FALSE]
    ELSE LET e == array[i + 1]
         IN IF e.source = node \/ e.target = node
            THEN IF i >= length
                 THEN [edges |-> SubSeq(array, 1, length), panic |-> TRUE]
                 ELSE removeIncidentEdges(
                          [[array EXCEPT ![i + 1] = array[length]] EXCEPT ![length] = ZeroEdge],
                          length - 1, i + 1, node)
            ELSE removeIncidentEdges(array, length, i + 1, node)

\* the empty Graph of the version with a node map and an edge slice
NewEdgeList == [nodes |-> EmptyMap, edges |-> << >>]

\* AddEdge(source, target Node) of that version
AddEdgeToList(gr, source, target) ==
    LET n1 == IF String(source) \in DOMAIN gr.nodes THEN gr.nodes
              ELSE MapPut(gr.nodes, String(source), source)
        n2 == IF String(target) \in DOMAIN n1 THEN n1
              ELSE MapPut(n1, String(target), target)
    IN [nodes |-> n2, edges |-> Append(gr.edges, [source |-> source, target |-> target])]

\* RemoveNode(name string) bool of that version
RemoveNodeOfEdgeList(gr, name) ==
    IF name \notin DOMAIN gr.nodes
    THEN [g |-> gr, ret |-> FALSE, panic |-> FALSE]
    ELSE LET r == removeIncidentEdges(gr.edges, Len(gr.edges), 0, gr.nodes[name])
         IN [g |-> [nodes |-> MapDelete(gr.nodes, name), edges |-> r.edges],
             ret |-> TRUE, panic |-> r.panic]

\* the index (from 1) of the first edge of the slice from source to target,
\* 0 if there is none
FirstEdgeNamed(edges, source, target) ==
    LET found == {k \in 1..Len(edges) : /\ String(edges[k].source) = source
                                        /\ String(edges[k].target) = target}
    IN IF found = {} THEN 0 ELSE CHOOSE k \in found : \A j \in found : k <= j

\* RemoveEdge(source, target string) bool of both list-backed versions, on
\* g.edges: the first matching edge is overwritten by the last one and the
\* slice is shortened
RemoveEdgeOfList(edges, source, target) ==
    LET index == FirstEdgeNamed(edges, source, target)
    IN IF index = 0 THEN [edges |-> edges, ret |-> FALSE]
       ELSE [edges |-> SubSeq([edges EXCEPT ![index] = edges[Len(edges)]], 1, Len(edges) - 1),
             ret |-> TRUE]

RECURSIVE AddNodeToListTargets(_, _, _)
\* for _, name := range targetNames of AddNode of the version with a node
\* map: the panic at a name that is not registered leaves the edges added
\* before it
AddNodeToListTargets(gr, node, targetNames) ==
    IF targetNames = << >> THEN [g |-> gr, panic |-> FALSE]
    ELSE IF Head(targetNames) \notin DOMAIN gr.nodes THEN [g |-> gr, panic |-> TRUE]
    ELSE AddNodeToListTargets(
             [gr EXCEPT !.edges = Append(@, [source |-> node,
                                             target |-> gr.nodes[Head(targetNames)]])],
             node, Tail(targetNames))

\* AddNode(node Node, targetNames ...string) of the version with a node map
AddNodeToList(gr, node, targetNames) ==
    AddNodeToListTargets([gr EXCEPT !.nodes = MapPut(@, String(node), node)],
                         node, targetNames)

\* the index (from 1) of the first node of the slice with the name, 0 if
\* there is none
FirstNodeNamed(nodes, name) ==
    LET found == {k \in 1..Len(nodes) : String(nodes[k]) = name}
    IN IF found = {} THEN 0 ELSE CHOOSE k \in found : \A j \in found : k <= j

RECURSIVE AddNodeToNodeListTargets(_, _, _)
\* for _, name := range targetNames of AddNode of the version with a node
\* slice: the target is the first node of g.nodes with the name
AddNodeToNodeListTargets(gr, node, targetNames) ==
    IF targetNames = << >> THEN [g |-> gr, panic |-> FALSE]
    ELSE IF FirstNodeNamed(gr.nodes, Head(targetNames)) = 0 THEN [g |-> gr, panic |-> TRUE]
    ELSE AddNodeToNodeListTargets(
             [gr EXCEPT !.edges =
                 Append(@, [source |-> node,
                            target |-> gr.nodes[FirstNodeNamed(gr.nodes, Head(targetNames))]])],
             node, Tail(targetNames))

\* AddNode(node Node, targetNames ...string) of the version with a node
\* slice: the node is appended whether or not its name is registered
AddNodeToNodeList(gr, node, targetNames) ==
    AddNodeToNodeListTargets([gr EXCEPT !.nodes = Append(@, node)], node, targetNames)

\* RemoveNode(name string) bool of the version with a node slice: the first
\* node with the name is overwritten by the last one, then the loop over the
\* edges compares their ends with the node that was removed
RemoveNodeOfNodeList(gr, name) ==
    LET i == FirstNodeNamed(gr.nodes, name)
    IN IF i = 0 THEN [g |-> gr, ret |-> FALSE, panic |-> FALSE]
       ELSE LET r == removeIncidentEdges(gr.edges, Len(gr.edges), 0, gr.nodes[i])
            IN [g |-> [nodes |-> SubSeq([gr.nodes EXCEPT ![i] = gr.nodes[Len(gr.nodes)]],
                                        1, Len(gr.nodes) - 1),
                       edges |-> r.edges],
                ret |-> TRUE, panic |-> r.panic]

\* the empty Graph of the version with a node slice and an edge slice
NewNodeList == [nodes |-> << >>, edges |-> << >>]

\* AddEdge(source, target Node) of that version: the loop over g.nodes sets
\* foundTarget only in the else branch of the test for the source
AddEdgeToNodeList(gr, source, target) ==
    LET foundSource == \E k \in 1..Len(gr.nodes) : String(gr.nodes[k]) = String(source)
        foundTarget == \E k \in 1..Len(gr.nodes) :
                          /\ String(gr.nodes[k]) # String(source)
                          /\ String(gr.nodes[k]) = String(target)
        n1 == IF foundSource THEN gr.nodes ELSE Append(gr.nodes, source)
        n2 == IF foundTarget THEN n1 ELSE Append(n1, target)
    IN [nodes |-> n2, edges |-> Append(gr.edges, [source |-> source, target |-> target])]

(***************************************************************************)
(* SpecEdgeList: a single-threaded client calling AddNode, AddEdge,        *)
(* RemoveNode and RemoveEdge of the version with a node map and an edge    *)
(* slice; SpecNodeList: a client calling the same four of the version that *)
(* keeps the nodes in a slice, with nodes of two types that can have the   *)
(* same name.                                                              *)
(***************************************************************************)
EdgeListInit ==
    /\ g = NewEdgeList
    /\ last = Call("New", << >>, << >>, "none", FALSE, NewEdgeList)

DoAddEdgeToList ==
    /\ Running
    /\ Len(g.edges) < MaxListEdges
    /\ UNCHANGED <<copyVars, walkVars, syncVars, ingestVars, scanVars, renderVars, writeVars, parseVars, layoutVars>>
    /\ \E source \in AllNodes, target \in AllNodes :
        /\ g' = AddEdgeToList(g, source, target)
        /\ last' = Call("AddEdge", << >>, <<source, target>>, "none", FALSE, g)

DoRemoveNodeOfEdgeList ==
    /\ Running
    /\ UNCHANGED <<copyVars, walkVars, syncVars, ingestVars, scanVars, renderVars, writeVars, parseVars, layoutVars>>
    /\ \E name \in Names :
        LET r == RemoveNodeOfEdgeList(g, name)
        IN /\ g' = r.g
           /\ last' = Call("RemoveNode", <<name>>, << >>, Ret(r.ret), r.panic, g)

DoAddNodeToList ==
    /\ Running
    /\ UNCHANGED <<copyVars, walkVars, syncVars, ingestVars, scanVars, renderVars, writeVars, parseVars, layoutVars>>
    /\ \E node \in AllNodes, targetNames \in TargetLists :
        LET r == AddNodeToList(g, node, targetNames)
        IN /\ Len(r.g.edges) <= MaxListEdges
           /\ g' = r.g
           /\ last' = Call("AddNode", targetNames, <<node>>, "none", r.panic, g)

DoRemoveEdgeOfList ==
    /\ Running
    /\ UNCHANGED <<copyVars, walkVars, syncVars, ingestVars, scanVars, renderVars, writeVars, parseVars, layoutVars>>
    /\ \E source \in Names, target \in Names :
        LET r == RemoveEdgeOfList(g.edges, source, target)
        IN /\ g' = [g EXCEPT !.edges = r.edges]
           /\ last' = Call("RemoveEdge", <<source, target>>, << >>, Ret(r.ret), FALSE, g)

InitEdgeList ==
    /\ EdgeListInit
    /\ CopyOff /\ WalkOff /\ SyncOff /\ IngestOff /\ ScanOff /\ RenderOff /\ WriteOff /\ ParseOff /\ LayoutOff

NextEdgeList == DoAddNodeToList \/ DoAddEdgeToList \/ DoRemoveNodeOfEdgeList \/ DoRemoveEdgeOfList

SpecEdgeList == InitEdgeList /\ [][NextEdgeList]_vars

NodeListInit ==
    /\ g = NewNodeList
    /\ last = Call("New", << >>, << >>, "none", FALSE, NewNodeList)

DoAddNodeToNodeList ==
    /\ Running
    /\ Len(g.nodes) < MaxListNodes
    /\ UNCHANGED <<copyVars, walkVars, syncVars, ingestVars, scanVars, renderVars, writeVars, parseVars, layoutVars>>
    /\ \E node \in KindNodes, targetNames \in TargetLists :
        LET r == AddNodeToNodeList(g, node, targetNames)
        IN /\ Len(r.g.edges) <= MaxListEdges
           /\ g' = r.g
           /\ last' = Call("AddNode", targetNames, <<node>>, "none", r.panic, g)

DoAddEdgeToNodeList ==
    /\ Running
    /\ Len(g.edges) < MaxListEdges
    /\ UNCHANGED <<copyVars, walkVars, syncVars, ingestVars, scanVars, renderVars, writeVars, parseVars, layoutVars>>
    /\ \E source \in KindNodes, target \in KindNodes :
        /\ Len(AddEdgeToNodeList(g, source, target).nodes) <= MaxListNodes
        /\ g' = AddEdgeToNodeList(g, source, target)
        /\ last' = Call("AddEdge", << >>, <<source, target>>, "none", FALSE, g)

DoRemoveNodeOfNodeList ==
    /\ Running
    /\ UNCHANGED <<copyVars, walkVars, syncVars, ingestVars, scanVars, renderVars, writeVars, parseVars, layoutVars>>
    /\ \E name \in Names :
        LET r == RemoveNodeOfNodeList(g, name)
        IN /\ g' = r.g
           /\ last' = Call("RemoveNode", <<name>>, << >>, Ret(r.ret), r.panic, g)

DoRemoveEdgeOfNodeList ==
    /\ Running
    /\ UNCHANGED <<copyVars, walkVars, syncVars, ingestVars, scanVars, renderVars, writeVars, parseVars, layoutVars>>
    /\ \E source \in Names, target \in Names :
        LET r == RemoveEdgeOfList(g.edges, source, target)
        IN /\ g' = [g EXCEPT !.edges = r.edges]
           /\ last' = Call("RemoveEdge", <<source, target>>, << >>, Ret(r.ret), FALSE, g)

InitNodeList ==
    /\ NodeListInit
    /\ CopyOff /\ WalkOff /\ SyncOff /\ IngestOff /\ ScanOff /\ RenderOff /\ WriteOff /\ ParseOff /\ LayoutOff

NextNodeList ==
    \/ DoAddNodeToNodeList
    \/ DoAddEdgeToNodeList
    \/ DoRemoveNodeOfNodeList
    \/ DoRemoveEdgeOfNodeList

SpecNodeList == InitNodeList /\ [][NextNodeList]_vars

(***************************************************************************)
(* SpecCopy: Copy and the independence of the copy. A Go map is a          *)
(* reference: a Graph struct holds two references into the heap of maps,   *)
(* and two Graph structs that hold the same reference share that map.      *)
(* The original Graph holds the maps 1 and 2; a Copy allocates 3 and 4     *)
(* (the maps of an earlier copy are unreachable by then).                  *)
(***************************************************************************)
\* the nil *Graph
NoGraph == [nodes |-> 0, edges |-> 0]

\* the graph value a Graph struct denotes: the contents of its two maps
Load(h, st) == [nodes |-> h[st.nodes], edges |-> h[st.edges]]

\* writing the maps of a Graph struct in place
Store(h, st, gv) ==
    [r \in DOMAIN h |-> IF r = st.nodes THEN gv.nodes
                        ELSE IF r = st.edges THEN gv.edges
                        ELSE h[r]]

\* fullGraph := graph instead of a copy
CopyNothing(h, st) == [heap |-> h, ret |-> st]

CopySharingEdges(h, st) ==
    [heap |-> [r \in (DOMAIN h) \cup {3} |-> IF r = 3 THEN h[st.nodes] ELSE h[r]],
     ret |-> [nodes |-> 3, edges |-> st.edges]]

\* Graph.Copy: two new maps, filled entry by entry from the maps of g
Copy(h, st) ==
    LET nodes == [k \in DOMAIN h[st.nodes] |-> h[st.nodes][k]]
        edges == {e : e \in h[st.edges]}
    IN [heap |-> [r \in (DOMAIN h) \cup {3, 4} |->
                     IF r = 3 THEN nodes ELSE IF r = 4 THEN edges ELSE h[r]],
        ret |-> [nodes |-> 3, edges |-> 4]]

\* Synced.Copy: &Synced{Graph: *g.Graph.Copy().(*Graph)} copies the struct that
\* Graph.Copy returned, so it holds the same two new maps
SyncedCopy(h, st) ==
    LET r == Copy(h, st)
    IN [heap |-> r.heap, ret |-> [nodes |-> r.ret.nodes, edges |-> r.ret.edges]]

CopyInit ==
    /\ heap = (1 :> EmptyMap) @@ (2 :> {})
    /\ orig = [nodes |-> 1, edges |-> 2]
    /\ copy = NoGraph
    /\ clast = "New"

\* the mutations the client of SpecCopy makes, on the Graph struct st
MutateAddEdgeAndNodes(st, who) ==
    \E source \in AllNodes, target \in AllNodes :
        /\ heap' = Store(heap, st, AddEdgeAndNodes(Load(heap, st), source, target))
        /\ clast' = who

MutateRemoveNode(st, who) ==
    \E name \in Names :
        /\ heap' = Store(heap, st, RemoveNode(Load(heap, st), name).g)
        /\ clast' = who

CopyGraph ==
    LET r == Copy(heap, orig)
    IN /\ heap' = r.heap
       /\ copy' = r.ret
       /\ clast' = "Copy"
       /\ UNCHANGED <<orig, graphVars, walkVars, syncVars, ingestVars, scanVars, renderVars, writeVars, parseVars, layoutVars>>

CopySynced ==
    LET r == SyncedCopy(heap, orig)
    IN /\ heap' = r.heap
       /\ copy' = r.ret
       /\ clast' = "Copy"
       /\ UNCHANGED <<orig, graphVars, walkVars, syncVars, ingestVars, scanVars, renderVars, writeVars, parseVars, layoutVars>>

OrigAddEdgeAndNodes ==
    MutateAddEdgeAndNodes(orig, "orig") /\ UNCHANGED <<orig, copy, graphVars, walkVars, syncVars, ingestVars, scanVars, renderVars, writeVars, parseVars, layoutVars>>

OrigRemoveNode ==
    MutateRemoveNode(orig, "orig") /\ UNCHANGED <<orig, copy, graphVars, walkVars, syncVars, ingestVars, scanVars, renderVars, writeVars, parseVars, layoutVars>>

CopyAddEdgeAndNodes ==
    /\ copy # NoGraph
    /\ MutateAddEdgeAndNodes(copy, "copy")
    /\ UNCHANGED <<orig, copy, graphVars, walkVars, syncVars, ingestVars, scanVars, renderVars, writeVars, parseVars, layoutVars>>

CopyRemoveNode ==
    /\ copy # NoGraph
    /\ MutateRemoveNode(copy, "copy")
    /\ UNCHANGED <<orig, copy, graphVars, walkVars, syncVars, ingestVars, scanVars, renderVars, writeVars, parseVars, layoutVars>>

InitCopy == CopyInit /\ GraphOff /\ WalkOff /\ SyncOff /\ IngestOff /\ ScanOff /\ RenderOff /\ WriteOff /\ ParseOff /\ LayoutOff

NextCopy ==
    \/ CopyGraph
    \/ CopySynced
    \/ OrigAddEdgeAndNodes
    \/ OrigRemoveNode
    \/ CopyAddEdgeAndNodes
    \/ CopyRemoveNode

SpecCopy == InitCopy /\ [][NextCopy]_vars

(***************************************************************************)
(* SpecWalk: one call of Graph.GetDependencyGraph, statement by statement. *)
(* The graph it is called on is any graph the operations above can build:  *)
(* edges between registered nodes, and self-edges of unregistered names    *)
(* (what RemoveNode leaves of a self-edge). A range over a Go map visits   *)
(* the keys in an unspecified order: every order is a behaviour.           *)
(***************************************************************************)
WalkNames == {NameOf[i] : i \in 1..MaxWalkNames}
WalkEdges == {MkEdge(s, t) : s \in WalkNames, t \in WalkNames}

GraphsOver(S) ==
    {[nodes |-> [n \in S |-> MkNode(n, "node")], edges |-> E] :
        E \in {F \in SUBSET WalkEdges :
                 /\ Cardinality(F) <= MaxWalkEdges
                 /\ \A e \in F : \/ e.source \in S /\ e.target \in S
                                 \/ e.source = e.target /\ e.source \notin S}}

InputGraphs == UNION {GraphsOver(S) : S \in SUBSET WalkNames}

\* the sequences that list the elements of S once each
Orders(S) ==
    {q \in [1..Cardinality(S) -> S] : \A i, j \in 1..Cardinality(S) : q[i] = q[j] => i = j}

\* the edges "for n := range g.nodes" finds from name: those to registered names
OutEdges(gr, name) ==
    {MkEdge(name, n) : n \in {c \in DOMAIN gr.nodes : MkEdge(name, c) \in gr.edges}}

NeverIncluded(res, e) == FALSE

\* if _, ok := result.nodes[current.target]; ok { continue }
AlreadyIncluded(res, e) == e.target \in DOMAIN res.nodes

RecordEdgeOfNewTargetOnly(res, e) ==
    IF e.target \in DOMAIN res.nodes THEN res ELSE [res EXCEPT !.edges = @ \cup {e}]

\* result.edges[current] = struct{}{}
RecordEdge(res, e) == [res EXCEPT !.edges = @ \cup {e}]

\* result.nodes[current.target] = g.nodes[current.target]
IncludeTarget(res, gr, e) == [res EXCEPT !.nodes = MapPut(@, e.target, gr.nodes[e.target])]

WalkInit ==
    /\ wg \in InputGraphs
    /\ wroot \in WalkNames
    /\ wpc = "start"
    /\ wedges = << >>
    /\ wi = 0
    /\ wres = New
    /\ wadds = [n \in WalkNames |-> 0]

\* nodename is not registered: return nil
WalkNotFound ==
    /\ wpc = "start"
    /\ wroot \notin DOMAIN wg.nodes
    /\ wpc' = "returnedNil"
    /\ UNCHANGED <<wg, wroot, wedges, wi, wres, wadds, graphVars, copyVars, syncVars, ingestVars, scanVars, renderVars, writeVars, parseVars, layoutVars>>

\* the edges of the root, and the result holding the root alone
WalkStart ==
    /\ wpc = "start"
    /\ wroot \in DOMAIN wg.nodes
    /\ \E q \in Orders(OutEdges(wg, wroot)) : wedges' = q
    /\ wres' = [nodes |-> MapPut(EmptyMap, wroot, wg.nodes[wroot]), edges |-> {}]
    /\ wadds' = [wadds EXCEPT ![wroot] = @ + 1]
    /\ wi' = 0
    /\ wpc' = "loop"
    /\ UNCHANGED <<wg, wroot, graphVars, copyVars, syncVars, ingestVars, scanVars, renderVars, writeVars, parseVars, layoutVars>>

\* one iteration of "for i := 0; i < len(edges); i++"
WalkStep ==
    /\ wpc = "loop"
    /\ wi < Len(wedges)
    /\ LET current == wedges[wi + 1]
           res1 == RecordEdge(wres, current)
       IN IF AlreadyIncluded(res1, current)
          THEN /\ wres' = res1
               /\ UNCHANGED <<wedges, wadds>>
          ELSE /\ wres' = IncludeTarget(res1, wg, current)
               /\ wadds' = [wadds EXCEPT ![current.target] = @ + 1]
               /\ \E q \in Orders(OutEdges(wg, current.target)) : wedges' = wedges \o q
    /\ wi' = wi + 1
    /\ UNCHANGED <<wg, wroot, wpc, graphVars, copyVars, syncVars, ingestVars, scanVars, renderVars, writeVars, parseVars, layoutVars>>

\* the loop is over: return result
WalkReturn ==
    /\ wpc = "loop"
    /\ wi = Len(wedges)
    /\ wpc' = "returned"
    /\ UNCHANGED <<wg, wroot, wedges, wi, wres, wadds, graphVars, copyVars, syncVars, ingestVars, scanVars, renderVars, writeVars, parseVars, layoutVars>>

InitWalk == WalkInit /\ GraphOff /\ CopyOff /\ SyncOff /\ IngestOff /\ ScanOff /\ RenderOff /\ WriteOff /\ ParseOff /\ LayoutOff

NextWalk ==
    \/ WalkNotFound
    \/ WalkStart
    \/ WalkStep
    \/ WalkReturn

\* the call has returned (the result, or nil for an unregistered root)
WalkDone == wpc \in {"returned", "returnedNil"}

SpecWalk == InitWalk /\ [][NextWalk]_vars

\* the call is not suspended forever: it runs on the caller's own thread
FairSpecWalk == SpecWalk /\ WF_vars(NextWalk)

(***************************************************************************)
(* SpecSync: goroutines calling the methods of one graph.Synced. Every     *)
(* method takes the embedded sync.RWMutex (Lock or RLock), defers the      *)
(* matching unlock and calls the method of the embedded Graph.             *)
(*                                                                         *)
(* sync.RWMutex: mu.w is the goroutine that has called Lock and not yet    *)
(* Unlock (0: none); it holds the lock once the readers that were in       *)
(* before it have left. RLock blocks while mu.w is set.                    *)
(***************************************************************************)
Procs == 1..MaxProcs

WriteOps == {"AddNode", "AddNodes", "RemoveNode", "AddEdge", "AddEdgeAndNodes", "RemoveEdge"}
ReadOps == {"GetNode", "GetNodes", "HasEdge", "GetDependencies", "GetDependants",
            "Copy", "GetDependencyGraph", "String"}
SyncOps == WriteOps \cup ReadOps

LockModeRemoveNodeShared(op) == IF op \in WriteOps \ {"RemoveNode"} THEN "Lock" ELSE "RLock"

\* what each method of Synced calls first: g.Lock() or g.RLock()
LockMode(op) == IF op \in WriteOps THEN "Lock" ELSE "RLock"

\* the graphs g.Graph.<op>(...) can leave, with whether the call panicked
SyncBodies(gr, op) ==
    CASE op = "AddNode" ->
            {AddNode(gr, node, t) : node \in AllNodes, t \in TargetLists}
      [] op = "AddNodes" ->
            {[g |-> AddNodes(gr, nodes), panic |-> FALSE] : nodes \in NodeLists}
      [] op = "RemoveNode" ->
            {[g |-> RemoveNode(gr, name).g, panic |-> FALSE] : name \in Names}
      [] op = "AddEdge" ->
            {AddEdge(gr, s, t) : s \in Names, t \in Names}
      [] op = "AddEdgeAndNodes" ->
            {[g |-> AddEdgeAndNodes(gr, s, t), panic |-> FALSE] :
                s \in AllNodes, t \in AllNodes}
      [] op = "RemoveEdge" ->
            {[g |-> RemoveEdge(gr, s, t).g, panic |-> FALSE] : s \in Names, t \in Names}
      [] OTHER -> {[g |-> gr, panic |-> FALSE]}

Idle == [pc |-> "idle", op |-> "none"]

SyncInit ==
    /\ sg = New
    /\ mu = [w |-> 0, readers |-> {}]
    /\ sp = [p \in Procs |-> Idle]

\* a panic that nothing recovers ends the program
Crashed == \E p \in Procs : sp[p].pc = "dead"

\* g.RLock() of a reading method returns
SyncRLock(p) ==
    /\ ~Crashed
    /\ sp[p].pc = "idle"
    /\ \E op \in SyncOps :
          /\ LockMode(op) = "RLock"
          /\ sp' = [sp EXCEPT ![p] = [pc |-> "cs", op |-> op]]
    /\ mu.w = 0
    /\ mu' = [mu EXCEPT !.readers = @ \cup {p}]
    /\ UNCHANGED <<sg, graphVars, copyVars, walkVars, ingestVars, scanVars, renderVars, writeVars, parseVars, layoutVars>>

\* g.Lock() of a mutating method: later RLock and Lock calls are held back
SyncLockBegin(p) ==
    /\ ~Crashed
    /\ sp[p].pc = "idle"
    /\ \E op \in SyncOps :
          /\ LockMode(op) = "Lock"
          /\ sp' = [sp EXCEPT ![p] = [pc |-> "lockWait", op |-> op]]
    /\ mu.w = 0
    /\ mu' = [mu EXCEPT !.w = p]
    /\ UNCHANGED <<sg, graphVars, copyVars, walkVars, ingestVars, scanVars, renderVars, writeVars, parseVars, layoutVars>>

\* g.Lock() returns: the readers have left
SyncLockEnd(p) ==
    /\ ~Crashed
    /\ sp[p].pc = "lockWait"
    /\ mu.readers = {}
    /\ sp' = [sp EXCEPT ![p].pc = "cs"]
    /\ UNCHANGED <<sg, mu, graphVars, copyVars, walkVars, ingestVars, scanVars, renderVars, writeVars, parseVars, layoutVars>>

\* the call of the embedded Graph's method, then the deferred g.Unlock() /
\* g.RUnlock(), which runs after a panic too
SyncBody(p) ==
    /\ ~Crashed
    /\ sp[p].pc = "cs"
    /\ \E r \in SyncBodies(sg, sp[p].op) :
          /\ sg' = r.g
          /\ sp' = [sp EXCEPT ![p] = IF r.panic THEN [Idle EXCEPT !.pc = "dead"] ELSE Idle]
    /\ mu' = IF LockMode(sp[p].op) = "Lock"
             THEN [mu EXCEPT !.w = 0]
             ELSE [mu EXCEPT !.readers = @ \ {p}]
    /\ UNCHANGED <<graphVars, copyVars, walkVars, ingestVars, scanVars, renderVars, writeVars, parseVars, layoutVars>>

InitSync == SyncInit /\ GraphOff /\ CopyOff /\ WalkOff /\ IngestOff /\ ScanOff /\ RenderOff /\ WriteOff /\ ParseOff /\ LayoutOff

NextSync ==
    \E p \in Procs :
        \/ SyncRLock(p)
        \/ SyncLockBegin(p)
        \/ SyncLockEnd(p)
        \/ SyncBody(p)

SpecSync == InitSync /\ [][NextSync]_vars

(***************************************************************************)
(* Go strings: a string is the sequence of its characters, indices are     *)
(* 0-based as in Go, s[a:b] is Slice(s, a, b).                             *)
(***************************************************************************)
Slice(s, a, b) == SubSeq(s, a + 1, b)

\* substr occurs in s at index i
MatchAt(s, i, substr) ==
    /\ i + Len(substr) <= Len(s)
    /\ SubSeq(s, i + 1, i + Len(substr)) = substr

\* strings.Index: the first occurrence, -1 if there is none
Index(s, substr) ==
    IF \E i \in 0..Len(s) : MatchAt(s, i, substr)
    THEN CHOOSE i \in 0..Len(s) :
            /\ MatchAt(s, i, substr)
            /\ \A j \in 0..(i - 1) : ~MatchAt(s, j, substr)
    ELSE -1

\* strings.LastIndex: the last occurrence, -1 if there is none
LastIndex(s, substr) ==
    IF \E i \in 0..Len(s) : MatchAt(s, i, substr)
    THEN CHOOSE i \in 0..Len(s) :
            /\ MatchAt(s, i, substr)
            /\ \A j \in (i + 1)..Len(s) : ~MatchAt(s, j, substr)
    ELSE -1

Contains(s, substr) == Index(s, substr) >= 0

RECURSIVE Split(_, _)
\* strings.Split: an empty separator splits after each character
Split(s, sep) ==
    IF sep = << >> THEN [k \in 1..Len(s) |-> <<s[k]>>]
    ELSE LET i == Index(s, sep)
         IN IF i < 0 THEN <<s>>
            ELSE <<Slice(s, 0, i)>> \o Split(Slice(s, i + Len(sep), Len(s)), sep)

\* the characters without an escape of their own are written by their code
\* point: the vertical tab, the next line and the no-break space
VerticalTab == "U+000B"
NextLine == "U+0085"
NoBreakSpace == "U+00A0"

\* the white space strings.TrimSpace cuts off: the characters unicode.IsSpace
\* holds for (in Latin-1 \t, \n, \v, \f, \r, the space, U+0085 and U+00A0;
\* above it the characters with the property White_Space)
WhiteSpace ==
    {" ", "\t", "\n", "\r", "\f", VerticalTab, NextLine, NoBreakSpace,
     "U+1680", "U+2000", "U+2001", "U+2002", "U+2003", "U+2004", "U+2005",
     "U+2006", "U+2007", "U+2008", "U+2009", "U+200A", "U+2028", "U+2029",
     "U+202F", "U+205F", "U+3000"}

RECURSIVE TrimLeft(_)
TrimLeft(s) ==
    IF s # << >> /\ Head(s) \in WhiteSpace THEN TrimLeft(Tail(s)) ELSE s

RECURSIVE TrimRight(_)
TrimRight(s) ==
    IF s # << >> /\ s[Len(s)] \in WhiteSpace THEN TrimRight(SubSeq(s, 1, Len(s) - 1)) ELSE s

TrimSpace(s) == TrimRight(TrimLeft(s))

(***************************************************************************)
(* syntax.Syntax and the Makefile preset.                                  *)
(***************************************************************************)
Makefile ==
    [GraphPrefix |-> << >>, EdgePrefix |-> << >>, SourceDelimiter |-> <<" ">>,
     EdgeInfix |-> <<":">>, TargetDelimiter |-> <<" ">>, EdgeSuffix |-> << >>,
     GraphSuffix |-> << >>, StripWhitespace |-> TRUE]

(***************************************************************************)
(* bufio: ScanLines, the split function scanLineWithEscape, and the loop   *)
(* of Scanner.Scan over a reader that hands out its chunks and then its    *)
(* error (io.EOF or a read error). A token is nil when has is FALSE.       *)
(***************************************************************************)
dropCR(data) ==
    IF data # << >> /\ data[Len(data)] = "\r" THEN SubSeq(data, 1, Len(data) - 1) ELSE data

NoToken == [advance |-> 0, token |-> << >>, has |-> FALSE]

ScanLines(data, atEOF) ==
    IF atEOF /\ data = << >> THEN NoToken
    ELSE LET i == Index(data, <<"\n">>)
         IN IF i >= 0 THEN [advance |-> i + 1, token |-> dropCR(Slice(data, 0, i)), has |-> TRUE]
            ELSE IF atEOF THEN [advance |-> Len(data), token |-> dropCR(data), has |-> TRUE]
            ELSE NoToken

RECURSIVE scanLineWithEscapeLoop(_, _, _)
\* the for loop: while the token ends in a backslash, cut it off and append
\* the line ScanLines finds in the data behind the token
scanLineWithEscapeLoop(data, atEOF, r) ==
    IF r.token # << >> /\ r.token[Len(r.token)] = "\\"
    THEN LET next == ScanLines(Slice(data, r.advance, Len(data)), atEOF)
         IN scanLineWithEscapeLoop(data, atEOF,
                [advance |-> r.advance + next.advance,
                 token |-> SubSeq(r.token, 1, Len(r.token) - 1) \o next.token,
                 has |-> TRUE])
    ELSE r

scanLineWithEscape(data, atEOF) ==
    scanLineWithEscapeLoop(data, atEOF, ScanLines(data, atEOF))

\* bufio.NewScanner(reader): empty buffer, no error seen yet
NewScanner(reader) ==
    [buf |-> << >>, err |-> "nil", reads |-> reader.reads, final |-> reader.err]

RECURSIVE Scan(_)
\* Scanner.Scan: [ok, token] and the scanner afterwards
Scan(s) ==
    LET r == IF s.buf # << >> \/ s.err # "nil"
             THEN scanLineWithEscape(s.buf, s.err # "nil")
             ELSE NoToken
        s1 == [s EXCEPT !.buf = Slice(s.buf, r.advance, Len(s.buf))]
    IN IF r.has THEN [ok |-> TRUE, token |-> r.token, s |-> s1]
       ELSE IF s1.err # "nil"
            THEN [ok |-> FALSE, token |-> << >>, s |-> [s1 EXCEPT !.buf = << >>]]
       ELSE IF s1.reads = << >>
            THEN Scan([s1 EXCEPT !.err = s1.final])
       ELSE Scan([s1 EXCEPT !.buf = @ \o Head(s1.reads), !.reads = Tail(s1.reads)])

\* scanner.Err() handing out io.EOF like any other error
ErrWithEOF(s) == s.err

\* Scanner.Err: io.EOF is not reported
Err(s) == IF s.err = "EOF" THEN "nil" ELSE s.err

(***************************************************************************)
(* FromScanner: the loop over syntaxes for one line, and scanDependencies. *)
(***************************************************************************)
\* activeSyntaxes is a map keyed by *syntax.Syntax: a list that holds one
\* pointer twice has one key for both elements. The syntaxes of the lists are
\* the presets of package syntax, each a pointer of its own to a value of its
\* own, so that a pointer is written as the value it points to.
NoMatch(active) ==
    [active |-> active, matched |-> FALSE, panic |-> FALSE, body |-> << >>, syntax |-> 0,
     tried |-> {}]

RECURSIVE MatchLineKeepsActive(_, _, _, _)
MatchLineKeepsActive(line, syntaxes, i, active) ==
    IF i > Len(syntaxes) THEN NoMatch(active)
    ELSE LET syntax == syntaxes[i]
             inGraph == Contains(line, syntax.GraphPrefix)
             from == Index(line, syntax.EdgePrefix) + Len(syntax.EdgePrefix)
         IN IF ~inGraph /\ syntax \notin active
            THEN MatchLineKeepsActive(line, syntaxes, i + 1, active)
            ELSE IF /\ Index(line, syntax.EdgePrefix) >= 0
                    /\ Index(line, syntax.EdgeInfix) >= 0
                    /\ LastIndex(line, syntax.EdgeSuffix) >= 0
                 THEN IF from > LastIndex(line, syntax.EdgeSuffix)
                      THEN [NoMatch(active \cup {syntax}) EXCEPT !.panic = TRUE, !.syntax = i,
                                                          !.tried = {i}]
                      ELSE [NoMatch(active \cup {syntax}) EXCEPT
                               !.matched = TRUE, !.syntax = i, !.tried = {i},
                               !.body = Slice(line, from, LastIndex(line, syntax.EdgeSuffix))]
                 ELSE [MatchLineKeepsActive(line, syntaxes, i + 1, active \cup {syntax})
                          EXCEPT !.tried = @ \cup {i}]

RECURSIVE MatchLineLastWins(_, _, _, _)
\* the loop over the syntaxes without the break: a later syntax that matches
\* the line takes it over
MatchLineLastWins(line, syntaxes, i, active) ==
    IF i > Len(syntaxes) THEN NoMatch(active)
    ELSE LET syntax == syntaxes[i]
             inGraph == Contains(line, syntax.GraphPrefix)
         IN IF ~inGraph /\ syntax \notin active
            THEN MatchLineLastWins(line, syntaxes, i + 1, active)
            ELSE LET a1 == IF inGraph THEN active \cup {syntax} ELSE active
                     a2 == IF syntax.GraphSuffix # << >> /\ Contains(line, syntax.GraphSuffix)
                           THEN a1 \ {syntax} ELSE a1
                     prefIndex == Index(line, syntax.EdgePrefix)
                     infixIndex == Index(line, syntax.EdgeInfix)
                     suffixIndex == LastIndex(line, syntax.EdgeSuffix)
                     from == prefIndex + Len(syntax.EdgePrefix)
                     later == MatchLineLastWins(line, syntaxes, i + 1, a2)
                 IN IF later.matched \/ later.panic
                       \/ ~(prefIndex >= 0 /\ infixIndex >= 0 /\ suffixIndex >= 0)
                    THEN [later EXCEPT !.tried = @ \cup {i}]
                    ELSE IF from > suffixIndex
                    THEN [NoMatch(later.active) EXCEPT !.panic = TRUE, !.syntax = i,
                                                       !.tried = later.tried \cup {i}]
                    ELSE [NoMatch(later.active) EXCEPT !.matched = TRUE, !.syntax = i,
                                                       !.tried = later.tried \cup {i},
                                                       !.body = Slice(line, from, suffixIndex)]

RECURSIVE MatchLine(_, _, _, _)
\* for _, syntax := range syntaxes, from the i-th syntax on
MatchLine(line, syntaxes, i, active) ==
    IF i > Len(syntaxes) THEN NoMatch(active)
    ELSE LET syntax == syntaxes[i]
             inGraph == Contains(line, syntax.GraphPrefix)
         IN IF ~inGraph /\ syntax \notin active
            THEN MatchLine(line, syntaxes, i + 1, active)
            ELSE LET a1 == IF inGraph THEN active \cup {syntax} ELSE active
                     a2 == IF syntax.GraphSuffix # << >> /\ Contains(line, syntax.GraphSuffix)
                           THEN a1 \ {syntax} ELSE a1
                     prefIndex == Index(line, syntax.EdgePrefix)
                     infixIndex == Index(line, syntax.EdgeInfix)
                     suffixIndex == LastIndex(line, syntax.EdgeSuffix)
                     from == prefIndex + Len(syntax.EdgePrefix)
                 IN IF prefIndex >= 0 /\ infixIndex >= 0 /\ suffixIndex >= 0
                    THEN IF from > suffixIndex
                         THEN [NoMatch(a2) EXCEPT !.panic = TRUE, !.syntax = i, !.tried = {i}]
                         ELSE [NoMatch(a2) EXCEPT !.matched = TRUE, !.syntax = i, !.tried = {i},
                                                  !.body = Slice(line, from, suffixIndex)]
                    ELSE [MatchLine(line, syntaxes, i + 1, a2) EXCEPT !.tried = @ \cup {i}]

NonEmpty(token) == token # << >>

\* the calls addEdge(source, target) in the order scanDependencies makes
\* them; line[:infixIndex] panics when the infix is not in the line
scanDependenciesKeepEmpty(line, syntax) ==
    LET infixIndex == Index(line, syntax.EdgeInfix)
    IN IF infixIndex < 0 THEN [panic |-> TRUE, calls |-> << >>]
       ELSE LET sources == Split(Slice(line, 0, infixIndex), syntax.SourceDelimiter)
                targets == Split(Slice(line, infixIndex + Len(syntax.EdgeInfix), Len(line)),
                                 syntax.TargetDelimiter)
            IN [panic |-> FALSE,
                calls |-> [k \in 1..(Len(sources) * Len(targets)) |->
                             MkEdge(TrimSpace(sources[((k - 1) \div Len(targets)) + 1]),
                                    TrimSpace(targets[((k - 1) % Len(targets)) + 1]))]]

scanDependencies(line, syntax) ==
    LET infixIndex == Index(line, syntax.EdgeInfix)
    IN IF infixIndex < 0 THEN [panic |-> TRUE, calls |-> << >>]
       ELSE LET strip(token) == IF syntax.StripWhitespace THEN TrimSpace(token) ELSE token
                split == IF syntax.SourceDelimiter # << >>
                         THEN Split(Slice(line, 0, infixIndex), syntax.SourceDelimiter)
                         ELSE <<Slice(line, 0, infixIndex)>>
                splitT == Split(Slice(line, infixIndex + Len(syntax.EdgeInfix), Len(line)),
                                syntax.TargetDelimiter)
                sources == SelectSeq([k \in 1..Len(split) |-> strip(split[k])], NonEmpty)
                targets == SelectSeq([k \in 1..Len(splitT) |-> strip(splitT[k])], NonEmpty)
            IN [panic |-> FALSE,
                calls |-> [k \in 1..(Len(sources) * Len(targets)) |->
                             MkEdge(sources[((k - 1) \div Len(targets)) + 1],
                                    targets[((k - 1) % Len(targets)) + 1])]]

\* addEdge of FromScanner: g.AddEdgeAndNodes(node(s), node(t))
addEdge(gr, e) == AddEdgeAndNodes(gr, MkNode(e.source, "node"), MkNode(e.target, "node"))

RECURSIVE addEdges(_, _)
addEdges(gr, calls) ==
    IF calls = << >> THEN gr ELSE addEdges(addEdge(gr, Head(calls)), Tail(calls))

(***************************************************************************)
(* SpecIngest: one call New().FromScanner(bufio.NewScanner(reader),        *)
(* syntax.Makefile), one action for each way an iteration of the loop      *)
(* for scanner.Scan() { ... } can go.                                      *)
(***************************************************************************)
IngestAlphabet == {"1", "2", ":", " ", "\n", "\\"}

\* graphString of TestGraph_FromScanner
TestText ==
    <<"1", ":", "2", " ", "3", " ", "\n",
      " ", "2", " ", "3", ":", " ", "4", " ", "5", " ", "6", " ", "7", "\n">>

IngestTexts == SeqsUpTo(IngestAlphabet, MaxTextLen) \cup {TestText}

\* a reader hands out the text in one Read and then reports io.EOF (as
\* strings.NewReader does) or a read error
ReaderOf(text, err) ==
    [text |-> text, reads |-> IF text = << >> THEN << >> ELSE <<text>>, err |-> err]

IngestReaders == {ReaderOf(text, err) : text \in IngestTexts, err \in {"EOF", "err"}}

IngestSyntaxes == <<Makefile>>

\* FromScanner up to its loop: without a syntax it panics before it touches
\* the scanner
IngestStart(readers, syntaxLists) ==
    /\ iin \in readers
    /\ isyn \in syntaxLists
    /\ ilines = << >>
    /\ itried = {}
    /\ iscan = NewScanner(iin)
    /\ ig = New
    /\ iactive = {}
    /\ ipc = IF Len(isyn) = 0 THEN "panicked" ELSE "loop"
    /\ ierr = "nil"
    /\ iline = << >>

\* scanner.Scan() is true and scanner.Err() is nil: the body of the loop
IngestLine ==
    /\ ipc = "loop"
    /\ LET sc == Scan(iscan)
           m == MatchLine(sc.token, isyn, 1, iactive)
           deps == IF m.matched
                   THEN scanDependencies(m.body, isyn[m.syntax])
                   ELSE [panic |-> FALSE, calls |-> << >>]
       IN /\ sc.ok /\ Err(sc.s) = "nil"
          /\ iscan' = sc.s
          /\ iline' = sc.token
          /\ ilines' = Append(ilines, sc.token)
          /\ itried' = m.tried
          /\ iactive' = m.active
          /\ ig' = addEdges(ig, deps.calls)
          /\ ipc' = IF m.panic \/ deps.panic THEN "panicked" ELSE "loop"
    /\ UNCHANGED <<iin, isyn, ierr, graphVars, copyVars, walkVars, syncVars, scanVars, renderVars, writeVars, parseVars, layoutVars>>

\* scanner.Scan() is true and scanner.Err() is not nil: return g, scanner.Err()
IngestReadError ==
    /\ ipc = "loop"
    /\ LET sc == Scan(iscan)
       IN /\ sc.ok /\ Err(sc.s) # "nil"
          /\ iscan' = sc.s
          /\ ierr' = Err(sc.s)
          /\ ipc' = "returned"
    /\ UNCHANGED <<iin, isyn, ig, iactive, iline, ilines, itried, graphVars, copyVars, walkVars, syncVars, scanVars, renderVars, writeVars, parseVars, layoutVars>>

\* scanner.Scan() is false: return g, nil
IngestEnd ==
    /\ ipc = "loop"
    /\ LET sc == Scan(iscan)
       IN /\ ~sc.ok
          /\ iscan' = sc.s
          /\ ierr' = "nil"
          /\ ipc' = "returned"
    /\ UNCHANGED <<iin, isyn, ig, iactive, iline, ilines, itried, graphVars, copyVars, walkVars, syncVars, scanVars, renderVars, writeVars, parseVars, layoutVars>>

RECURSIVE FromScannerLoop(_, _, _, _)
\* the whole loop of Graph.FromScanner from scanner state s on: the graph
\* and the error it returns, or the panic that ends it
FromScannerLoop(s, syntaxes, active, gr) ==
    LET sc == Scan(s)
    IN IF ~sc.ok THEN [g |-> gr, err |-> "nil", panic |-> FALSE]
       ELSE IF Err(sc.s) # "nil" THEN [g |-> gr, err |-> Err(sc.s), panic |-> FALSE]
       ELSE LET m == MatchLine(sc.token, syntaxes, 1, active)
                deps == IF m.matched
                        THEN scanDependencies(m.body, syntaxes[m.syntax])
                        ELSE [panic |-> FALSE, calls |-> << >>]
            IN IF m.panic \/ deps.panic
               THEN [g |-> gr, err |-> "nil", panic |-> TRUE]
               ELSE FromScannerLoop(sc.s, syntaxes, m.active, addEdges(gr, deps.calls))

\* g.FromScanner(scanner, syntaxes...): the panic without a syntax, then the
\* loop with no syntax active
FromScanner(scanner, syntaxes, gr) ==
    IF Len(syntaxes) = 0 THEN [g |-> gr, err |-> "nil", panic |-> TRUE]
    ELSE FromScannerLoop(scanner, syntaxes, {}, gr)

(***************************************************************************)
(* SpecChunks: the same call on a reader that hands out the text in two    *)
(* Reads (a pipe, or a file longer than the scanner's buffer), so that the *)
(* split function is called with atEOF false on data that ends anywhere in *)
(* the text.                                                               *)
(***************************************************************************)
\* the reader that returns the first k characters of the text, then the
\* rest, then io.EOF
ChunkReader(text, k) ==
    [text |-> text, err |-> "EOF",
     reads |-> <<SubSeq(text, 1, k), SubSeq(text, k + 1, Len(text))>>]

InitChunks ==
    /\ \E text \in SeqsUpTo(IngestAlphabet, MaxTextLen) :
          \E k \in 1..(Len(text) - 1) :
              IngestStart({ChunkReader(text, k)}, {IngestSyntaxes})
    /\ GraphOff /\ CopyOff /\ WalkOff /\ SyncOff /\ ScanOff /\ RenderOff /\ WriteOff /\ ParseOff /\ LayoutOff

NextChunks == IngestLine \/ IngestEnd

SpecChunks == InitChunks /\ [][NextChunks]_vars

InitIngest ==
    /\ IngestStart(IngestReaders, {IngestSyntaxes})
    /\ GraphOff /\ CopyOff /\ WalkOff /\ SyncOff /\ ScanOff /\ RenderOff /\ WriteOff /\ ParseOff /\ LayoutOff

NextIngest == IngestLine \/ IngestReadError \/ IngestEnd

SpecIngest == InitIngest /\ [][NextIngest]_vars

(***************************************************************************)
(* SpecDot: one call New().FromScanner(scanner, syntaxes...) on texts in   *)
(* the dot language, with the Dot preset alone and together with Makefile  *)
(* (the -syntax flag of the command defaults to "Makefile,Dot").           *)
(***************************************************************************)
Dot ==
    [GraphPrefix |-> <<"d", "i", "g", "r", "a", "p", "h", "{">>, EdgePrefix |-> << >>,
     SourceDelimiter |-> << >>, EdgeInfix |-> <<"-", ">">>, TargetDelimiter |-> << >>,
     EdgeSuffix |-> <<";">>, GraphSuffix |-> <<"}">>, StripWhitespace |-> TRUE]

\* the lines the texts are put together from
DotLineChoices ==
    { <<"d", "i", "g", "r", "a", "p", "h", "{">>,
      <<"}">>,
      <<"a", "-", ">", "b", ";">>,
      <<"a", "-", ">", "b", "c", ";">>,
      <<"b", "-", ">", "a", ";", "}">>,
      <<"b", ":", "}">> }

RECURSIVE JoinLines(_)
\* the lines, each followed by a line end
JoinLines(ls) == IF ls = << >> THEN << >> ELSE Head(ls) \o <<"\n">> \o JoinLines(Tail(ls))

\* the text of the lines; the last line has a line end only if terminated
DotText(ls, terminated) ==
    LET text == JoinLines(ls)
    IN IF terminated \/ ls = << >> THEN text ELSE SubSeq(text, 1, Len(text) - 1)

DotReaders ==
    {ReaderOf(DotText(ls, terminated), err) :
        ls \in SeqsUpTo(DotLineChoices, MaxDotLines),
        terminated \in BOOLEAN, err \in {"EOF", "err"}}

DotSyntaxLists == {<<Dot>>, <<Makefile, Dot>>, <<Dot, Makefile>>}

InitDot ==
    /\ IngestStart(DotReaders, DotSyntaxLists)
    /\ GraphOff /\ CopyOff /\ WalkOff /\ SyncOff /\ ScanOff /\ RenderOff /\ WriteOff /\ ParseOff /\ LayoutOff

SpecDot == InitDot /\ [][NextIngest]_vars

(***************************************************************************)
(* SpecMatch: one call New().FromScanner(scanner, syntaxes...) with two    *)
(* syntaxes on texts with lines that hold the edge markers of both.        *)
(***************************************************************************)
MatchLineChoices ==
    { <<"d", "i", "g", "r", "a", "p", "h", "{">>,
      <<"}">>,
      <<"1", "-", ">", "2", ";">>,
      <<"1", ":", "-", ">", "2", ";">> }

MatchReaders ==
    {ReaderOf(DotText(ls, terminated), err) :
        ls \in SeqsUpTo(MatchLineChoices, MaxDotLines),
        terminated \in BOOLEAN, err \in {"EOF", "err"}}

InitMatch ==
    /\ IngestStart(MatchReaders, DotSyntaxLists)
    /\ GraphOff /\ CopyOff /\ WalkOff /\ SyncOff /\ ScanOff /\ RenderOff /\ WriteOff /\ ParseOff /\ LayoutOff

SpecMatch == InitMatch /\ [][NextIngest]_vars

(***************************************************************************)
(* SpecScan: one call NewSynced().FromScanner(scanner, syntax.Makefile).   *)
(* The calling goroutine scans the lines and sends the bodies of the       *)
(* matched ones to the buffered channel tasks; numWorkers goroutines       *)
(* receive them and add their edges, one g.AddEdgeAndNodes call (taking    *)
(* the write lock of g) at a time. The deferred calls of FromScanner run   *)
(* when it returns, the one deferred last first.                           *)
(***************************************************************************)
\* the lines the texts are put together from; the last has no line end, so
\* it is still in the scanner's buffer when the reader reports its error
ScanLineChoices ==
    { <<"1", ":", "2", "\n">>,
      <<"2", ":", "1", " ", "2", "\n">>,
      <<"2", ":", "1">> }

RECURSIVE Concat(_)
Concat(ls) == IF ls = << >> THEN << >> ELSE Head(ls) \o Concat(Tail(ls))

ScanReaders ==
    {ReaderOf(Concat(ls), err) : ls \in SeqsUpTo(ScanLineChoices, MaxScanLines),
                                 err \in {"EOF", "err"}}

Workers == 1..numWorkers

DeferredNoWait == <<"close">>

\* the deferred calls in the order they are written: Wait would run first
DeferredInWrittenOrder == <<"wait", "close">>

\* defer waitGroup.Wait() comes before defer close(tasks): close runs first
Deferred == <<"close", "wait">>

\* where FromScanner goes on after its k-th deferred call
AfterDeferred(k) == IF k < Len(Deferred) THEN Deferred[k + 1] ELSE "returned"

NoEdges == [k \in {} |-> k]

ScanInit ==
    /\ IngestStart(ScanReaders, {IngestSyntaxes})
    /\ numWorkers \in 1..MaxWorkers
    /\ tasks = << >>
    /\ closed = FALSE
    /\ wk = [w \in Workers |-> [pc |-> "recv", todo |-> NoEdges]]
    /\ waitGroup = numWorkers
    /\ pend = << >>
    /\ dispatched = {}

\* scanner.Scan() is true and scanner.Err() is nil: the body of the loop, up
\* to the send of the matched body
ScanLine ==
    /\ ipc = "loop"
    /\ \E sc \in {Scan(iscan)} : \E m \in {MatchLine(sc.token, isyn, 1, iactive)} :
          /\ sc.ok /\ Err(sc.s) = "nil"
          /\ iscan' = sc.s
          /\ iline' = sc.token
          /\ ilines' = Append(ilines, sc.token)
          /\ itried' = m.tried
          /\ iactive' = m.active
          /\ pend' = m.body
          /\ ipc' = IF m.panic THEN "panicked" ELSE IF m.matched THEN "send" ELSE "loop"
    /\ UNCHANGED <<iin, isyn, ig, ierr, numWorkers, tasks, closed, wk, waitGroup, dispatched,
                   graphVars, copyVars, walkVars, syncVars, renderVars, writeVars, parseVars, layoutVars>>

\* tasks <- Task{...}: blocks while the channel holds numWorkers tasks
ScanSend ==
    /\ ipc = "send"
    /\ Len(tasks) < numWorkers
    /\ tasks' = Append(tasks, pend)
    /\ dispatched' = dispatched \cup {pend}
    /\ pend' = << >>
    /\ ipc' = "loop"
    /\ UNCHANGED <<iin, isyn, iscan, ig, iactive, ierr, iline, ilines, itried, numWorkers, closed, wk, waitGroup,
                   graphVars, copyVars, walkVars, syncVars, renderVars, writeVars, parseVars, layoutVars>>

\* scanner.Scan() is true and scanner.Err() is not nil: return g, scanner.Err()
ScanReadError ==
    /\ ipc = "loop"
    /\ \E sc \in {Scan(iscan)} :
          /\ sc.ok /\ Err(sc.s) # "nil"
          /\ iscan' = sc.s
          /\ ierr' = Err(sc.s)
          /\ ipc' = Deferred[1]
    /\ UNCHANGED <<iin, isyn, ig, iactive, iline, ilines, itried, scanVars,
                   graphVars, copyVars, walkVars, syncVars, renderVars, writeVars, parseVars, layoutVars>>

\* scanner.Scan() is false: return g, nil
ScanEnd ==
    /\ ipc = "loop"
    /\ \E sc \in {Scan(iscan)} :
          /\ ~sc.ok
          /\ iscan' = sc.s
          /\ ierr' = "nil"
          /\ ipc' = Deferred[1]
    /\ UNCHANGED <<iin, isyn, ig, iactive, iline, ilines, itried, scanVars,
                   graphVars, copyVars, walkVars, syncVars, renderVars, writeVars, parseVars, layoutVars>>

\* the deferred close(tasks)
ScanClose ==
    /\ ipc = "close"
    /\ closed' = TRUE
    /\ ipc' = AfterDeferred(1)
    /\ UNCHANGED <<iin, isyn, iscan, ig, iactive, ierr, iline, ilines, itried, numWorkers, tasks, wk, waitGroup,
                   pend, dispatched, graphVars, copyVars, walkVars, syncVars, renderVars, writeVars, parseVars, layoutVars>>

\* the deferred waitGroup.Wait() returns when the counter is zero
ScanWait ==
    /\ ipc = "wait"
    /\ waitGroup = 0
    /\ ipc' = AfterDeferred(2)
    /\ UNCHANGED <<iin, isyn, iscan, ig, iactive, ierr, iline, ilines, itried, scanVars,
                   graphVars, copyVars, walkVars, syncVars, renderVars, writeVars, parseVars, layoutVars>>

\* a task is a piece of one line of the text
TaskLines ==
    UNION {{Slice(r.text, a, b) : a \in 0..Len(r.text), b \in 0..Len(r.text)} : r \in ScanReaders}

\* a worker that makes only the first addEdge call of each task
TaskDependenciesFirstOnly ==
    [line \in TaskLines |->
        LET deps == scanDependencies(line, Makefile)
        IN [deps EXCEPT !.calls = IF @ = << >> THEN @ ELSE <<Head(@)>>]]

\* scanDependencies(task.line, task.syntax, addEdge) for each task, worked
\* out once
TaskDependencies == [line \in TaskLines |-> scanDependencies(line, Makefile)]

\* for task := range tasks receives a task; scanDependencies splits it
WorkerRecv(w) ==
    /\ wk[w].pc = "recv"
    /\ tasks # << >>
    /\ tasks' = Tail(tasks)
    /\ \E deps \in {TaskDependencies[Head(tasks)]} :
          wk' = [wk EXCEPT ![w] =
                    IF deps.panic THEN [pc |-> "panicked", todo |-> NoEdges]
                    ELSE IF deps.calls = << >> THEN [pc |-> "recv", todo |-> NoEdges]
                    ELSE [pc |-> "work", todo |-> deps.calls]]
    /\ UNCHANGED <<ingestVars, numWorkers, closed, waitGroup, pend, dispatched,
                   graphVars, copyVars, walkVars, syncVars, renderVars, writeVars, parseVars, layoutVars>>

\* the next addEdge(source, target) of scanDependencies
WorkerAddEdge(w) ==
    /\ wk[w].pc = "work"
    /\ ig' = addEdge(ig, Head(wk[w].todo))
    /\ wk' = [wk EXCEPT ![w] =
                 IF Tail(wk[w].todo) = << >> THEN [pc |-> "recv", todo |-> NoEdges]
                 ELSE [pc |-> "work", todo |-> Tail(wk[w].todo)]]
    /\ UNCHANGED <<iin, isyn, iscan, iactive, ipc, ierr, iline, ilines, itried, numWorkers, tasks, closed,
                   waitGroup, pend, dispatched, graphVars, copyVars, walkVars, syncVars, renderVars, writeVars, parseVars, layoutVars>>

\* the range loop ends on the closed, empty channel; the deferred
\* waitGroup.Done() runs
WorkerExit(w) ==
    /\ wk[w].pc = "recv"
    /\ tasks = << >>
    /\ closed
    /\ wk' = [wk EXCEPT ![w].pc = "exited"]
    /\ waitGroup' = waitGroup - 1
    /\ UNCHANGED <<ingestVars, numWorkers, tasks, closed, pend, dispatched,
                   graphVars, copyVars, walkVars, syncVars, renderVars, writeVars, parseVars, layoutVars>>

InitScan ==
    /\ ScanInit
    /\ GraphOff /\ CopyOff /\ WalkOff /\ SyncOff /\ RenderOff /\ WriteOff /\ ParseOff /\ LayoutOff

NextScan ==
    \/ ScanLine
    \/ ScanSend
    \/ ScanReadError
    \/ ScanEnd
    \/ ScanClose
    \/ ScanWait
    \/ \E w \in Workers : WorkerRecv(w) \/ WorkerAddEdge(w) \/ WorkerExit(w)

SpecScan == InitScan /\ [][NextScan]_vars

\* the steps of the goroutine that called FromScanner
ScanCaller == ScanLine \/ ScanSend \/ ScanReadError \/ ScanEnd \/ ScanClose \/ ScanWait

\* the steps of the w-th worker goroutine
ScanWorker(w) == w \in Workers /\ (WorkerRecv(w) \/ WorkerAddEdge(w) \/ WorkerExit(w))

\* the texts of lines with one dependency each
FairScanReaders ==
    {ReaderOf(Concat(ls), err) :
        ls \in SeqsUpTo({l \in ScanLineChoices : \A k \in 1..Len(l) : l[k] # " "}, MaxScanLines),
        err \in {"EOF", "err"}}

InitScanFair == InitScan /\ iin \in FairScanReaders

\* the Go scheduler runs every goroutine that is not blocked
FairSpecScan ==
    /\ InitScanFair /\ [][NextScan]_vars
    /\ WF_vars(ScanCaller)
    /\ \A w \in 1..MaxWorkers : WF_vars(ScanWorker(w))

(***************************************************************************)
(* SpecWrite: WriteDot(graph, writer) followed by                          *)
(* New().FromScanner(scanner, syntax.Dot) on the bytes that were written.  *)
(* GetNodes and GetDependencies range over Go maps, so the order of the    *)
(* nodes and of each node's dependencies is any order.                     *)
(***************************************************************************)
\* "\"" + name + "\""
Quote(name) == <<"\"">> \o name \o <<"\"">>

RECURSIVE WriteDependencies(_, _, _, _)
\* for index, dep := range dependencies { ... }, from index on
WriteDependencies(syntax, name, dependencies, index) ==
    IF index >= Len(dependencies) THEN << >>
    ELSE Quote(String(dependencies[index + 1]))
         \o (IF index < Len(dependencies) - 1
             THEN IF syntax.TargetDelimiter = << >>
                  THEN syntax.EdgeSuffix \o <<"\n">> \o syntax.EdgePrefix
                       \o Quote(name) \o syntax.EdgeInfix
                  ELSE syntax.TargetDelimiter
             ELSE << >>)
         \o WriteDependencies(syntax, name, dependencies, index + 1)

RECURSIVE WriteNodes(_, _, _)
\* for _, node := range graph.GetNodes() { ... }: nodes is the slice GetNodes
\* returned, depsOf[name] the slice GetDependencies(name) returned
WriteNodes(syntax, nodes, depsOf) ==
    IF nodes = << >> THEN << >>
    ELSE LET name == String(Head(nodes))
             dependencies == depsOf[name]
         IN (IF Len(dependencies) > 0
             THEN syntax.EdgePrefix \o Quote(name) \o syntax.EdgeInfix
                  \o WriteDependencies(syntax, name, dependencies, 0)
                  \o syntax.EdgeSuffix \o <<"\n">>
             ELSE << >>)
            \o WriteNodes(syntax, Tail(nodes), depsOf)

\* the bytes WriteGraph writes to writer
WriteGraph(syntax, nodes, depsOf) ==
    syntax.GraphPrefix \o <<"\n">> \o WriteNodes(syntax, nodes, depsOf) \o syntax.GraphSuffix

RECURSIVE SlicesFor(_, _)
\* the slices GetDependencies can return for each of the names
SlicesFor(gr, names) ==
    IF names = {} THEN {EmptyMap}
    ELSE LET n == CHOOSE x \in names : TRUE
         IN {MapPut(d, n, o) : d \in SlicesFor(gr, names \ {n}),
                               o \in Orders(GetDependencies(gr, n))}

\* the slices GetDependencies can return for each registered name of gr
DependencySlices(gr) == SlicesFor(gr, DOMAIN gr.nodes)

WriteInit ==
    /\ wsrc \in InputGraphs
    /\ iin = ReaderOf(<< >>, "EOF")
    /\ isyn = <<Dot>>
    /\ ilines = << >>
    /\ itried = {}
    /\ iscan = NewScanner(iin)
    /\ ig = New
    /\ iactive = {}
    /\ ipc = "write"
    /\ ierr = "nil"
    /\ iline = << >>

\* WriteDot(wsrc, writer); the scanner then reads what was written
WriteDot ==
    /\ ipc = "write"
    /\ \E nodes \in Orders(GetNodes(wsrc)), depsOf \in DependencySlices(wsrc) :
          /\ iin' = ReaderOf(WriteGraph(Dot, nodes, depsOf), "EOF")
          /\ iscan' = NewScanner(iin')
    /\ ipc' = "loop"
    /\ UNCHANGED <<isyn, ig, iactive, ierr, iline, ilines, itried, wsrc, graphVars, copyVars, walkVars, syncVars, scanVars, renderVars, parseVars, layoutVars>>

InitWrite ==
    /\ WriteInit
    /\ GraphOff /\ CopyOff /\ WalkOff /\ SyncOff /\ ScanOff /\ RenderOff /\ ParseOff /\ LayoutOff

NextWrite == WriteDot \/ IngestLine \/ IngestEnd

SpecWrite == InitWrite /\ [][NextWrite]_vars

(***************************************************************************)
(* SpecRender, SpecRenderPar: calls of PrintDepTree(graph, start) on one   *)
(* graph. printDepTreeLevel is recursive; each caller has the stack of its *)
(* calls, and every call is modelled by its entry (lines 719-735: the      *)
(* lookup in nodeFinished, the name field, the return of a leaf), the      *)
(* iterations of its loop over the dependencies (line 748) and its return  *)
(* (lines 752-777). nodeFinished is a package-level variable: all callers  *)
(* read and write the same set. The name fields are recorded in the order  *)
(* they are made, with the depth of the call that made them.               *)
(***************************************************************************)
\* the goroutines that call PrintDepTree
MainCaller == {"main"}
TwoCallers == {"main", "other"}

\* the start nodes PrintDepTree is given (nil included)
RenderStarts == {MkNode(n, "node") : n \in WalkNames} \cup {NilNode}

\* a call printDepTreeLevel(g, n, out, rightOffset) that has not run yet
LevelCall(n) == [n |-> n, dependencies |-> << >>, i |-> 0, pc |-> "enter"]

\* _, finished := nodeFinished[n], with the lookup always missing
finishedNever(set, n) == FALSE

\* _, finished := nodeFinished[n]
finished(set, n) == n \in set

\* the name field of n
NameField(n, isFinished) ==
    IF isFinished THEN <<" ", "&">> \o String(n) \o <<" ">>
    ELSE <<" ">> \o String(n) \o <<" ">>

\* full tells PrintFullDepTree from PrintDepTree
NotRendering == [pc |-> "idle", full |-> FALSE, stack |-> << >>, fields |-> << >>]

\* a panic ends the process: "panicked" in PrintDepTree or printDepTreeLevel,
\* "wrapPanicked" in wrapToStdout after the rows were built
RenderPanicked == \E p \in DOMAIN rp : rp[p].pc \in {"panicked", "wrapPanicked"}

RenderInit(callers, graphs) ==
    /\ rgraph \in graphs
    /\ nodeFinished = {}
    /\ rp = [p \in callers |-> NotRendering]

\* PrintDepTree up to the call of printDepTreeLevel
PrintDepTree(p) ==
    /\ ~RenderPanicked
    /\ rp[p].pc \in {"idle", "done"}
    /\ \E start \in RenderStarts :
          IF start = NilNode
          THEN /\ rp' = [rp EXCEPT ![p].pc = "panicked"]
               /\ UNCHANGED nodeFinished
          ELSE /\ nodeFinished' = {}
               /\ rp' = [rp EXCEPT ![p] = [pc |-> "run", full |-> FALSE,
                                           stack |-> <<LevelCall(start)>>,
                                           fields |-> << >>]]
    /\ UNCHANGED <<rgraph, graphVars, copyVars, walkVars, syncVars, ingestVars, scanVars, writeVars, parseVars, layoutVars>>

\* printDepTreeLevel from its first line to the lookup nodeFinished[n];
\* n.String() panics when n is nil. A node that is found is a leaf with the
\* '&' name: the call returns. For a node that is not found the insert into
\* nodeFinished is a statement of its own, and another goroutine can run
\* between the two.
printDepTreeLevel(p) ==
    /\ ~RenderPanicked
    /\ rp[p].pc = "run" /\ rp[p].stack # << >>
    /\ LET depth == Len(rp[p].stack)
           call == rp[p].stack[depth]
           isFinished == finished(nodeFinished, call.n)
       IN /\ call.pc = "enter"
          /\ IF call.n = NilNode
             THEN rp' = [rp EXCEPT ![p].pc = "panicked"]
             ELSE
             \E found \in Orders(GetDependencies(rgraph, String(call.n))) :
                IF isFinished
                THEN rp' = [rp EXCEPT
                              ![p].fields = Append(@, [node |-> call.n,
                                                       name |-> NameField(call.n, TRUE),
                                                       dependencies |-> << >>,
                                                       depth |-> depth]),
                              ![p].stack = SubSeq(@, 1, depth - 1)]
                ELSE rp' = [rp EXCEPT
                              ![p].stack[depth] = [call EXCEPT !.dependencies = found,
                                                               !.pc = "mark"]]
    /\ UNCHANGED <<rgraph, nodeFinished, graphVars, copyVars, walkVars, syncVars, ingestVars, scanVars, writeVars, parseVars, layoutVars>>

\* nodeFinished[n] = struct{}{} for a node the lookup has not found, and on
\* to the return of a leaf or to the loop over the dependencies
printDepTreeLevelMark(p) ==
    /\ ~RenderPanicked
    /\ rp[p].pc = "run" /\ rp[p].stack # << >>
    /\ LET depth == Len(rp[p].stack)
           call == rp[p].stack[depth]
       IN /\ call.pc = "mark"
          /\ nodeFinished' = nodeFinished \cup {call.n}
          /\ rp' = [rp EXCEPT
                      ![p].fields = Append(@, [node |-> call.n,
                                               name |-> NameField(call.n, FALSE),
                                               dependencies |-> call.dependencies,
                                               depth |-> depth]),
                      ![p].stack =
                          IF Len(call.dependencies) = 0
                          THEN SubSeq(@, 1, depth - 1)
                          ELSE [@ EXCEPT ![depth].pc = "loop"]]
    /\ UNCHANGED <<rgraph, graphVars, copyVars, walkVars, syncVars, ingestVars, scanVars, writeVars, parseVars, layoutVars>>

\* the goroutine is about to look n up in nodeFinished or to insert it
AtMapAccess(p) ==
    /\ rp[p].pc = "run" /\ rp[p].stack # << >>
    /\ LET call == rp[p].stack[Len(rp[p].stack)]
       IN \/ call.pc = "enter" /\ call.n # NilNode
          \/ call.pc = "mark"

\* the goroutine is about to insert into nodeFinished
AtMapWrite(p) ==
    /\ rp[p].pc = "run" /\ rp[p].stack # << >>
    /\ rp[p].stack[Len(rp[p].stack)].pc = "mark"

\* nodeFinished is a map shared without a lock: an insert that overlaps a
\* lookup or an insert of another goroutine can be caught by the runtime,
\* which ends the process ("fatal error: concurrent map writes", "concurrent
\* map read and map write")
ConcurrentMapAccess ==
    /\ ~RenderPanicked
    /\ \E p, q \in DOMAIN rp : p # q /\ AtMapWrite(p) /\ AtMapAccess(q)
    /\ rp' = [r \in DOMAIN rp |-> [rp[r] EXCEPT !.pc = "fatal"]]
    /\ UNCHANGED <<rgraph, nodeFinished, graphVars, copyVars, walkVars, syncVars, ingestVars, scanVars, writeVars, parseVars, layoutVars>>

\* for i, dep := range dependencies: the recursive call for the next dependency
printDepTreeLevelDep(p) ==
    /\ ~RenderPanicked
    /\ rp[p].pc = "run" /\ rp[p].stack # << >>
    /\ LET depth == Len(rp[p].stack)
           call == rp[p].stack[depth]
       IN /\ call.pc = "loop" /\ call.i < Len(call.dependencies)
          /\ rp' = [rp EXCEPT ![p].stack =
                       Append([@ EXCEPT ![depth].i = call.i + 1],
                              LevelCall(call.dependencies[call.i + 1]))]
    /\ UNCHANGED <<rgraph, nodeFinished, graphVars, copyVars, walkVars, syncVars, ingestVars, scanVars, writeVars, parseVars, layoutVars>>

\* the loop is over: the arrows and the name are drawn, the call returns
printDepTreeLevelReturn(p) ==
    /\ ~RenderPanicked
    /\ rp[p].pc = "run" /\ rp[p].stack # << >>
    /\ LET depth == Len(rp[p].stack)
           call == rp[p].stack[depth]
       IN /\ call.pc = "loop" /\ call.i >= Len(call.dependencies)
          /\ rp' = [rp EXCEPT ![p].stack = SubSeq(@, 1, depth - 1)]
    /\ UNCHANGED <<rgraph, nodeFinished, graphVars, copyVars, walkVars, syncVars, ingestVars, scanVars, writeVars, parseVars, layoutVars>>

\* printDepTreeLevel has returned to PrintDepTree: wrapToStdout asks "stty
\* size" for the width of the terminal and panics when the command fails (no
\* terminal on stdin); otherwise the lines are printed
PrintDepTreeReturn(p) ==
    /\ ~RenderPanicked
    /\ rp[p].pc = "run" /\ rp[p].stack = << >> /\ ~rp[p].full
    /\ \E sized \in BOOLEAN :
          rp' = [rp EXCEPT ![p].pc = IF sized THEN "done" ELSE "wrapPanicked"]
    /\ UNCHANGED <<rgraph, nodeFinished, graphVars, copyVars, walkVars, syncVars, ingestVars, scanVars, writeVars, parseVars, layoutVars>>

InitRender ==
    /\ RenderInit(MainCaller, InputGraphs)
    /\ GraphOff /\ CopyOff /\ WalkOff /\ SyncOff /\ IngestOff /\ ScanOff /\ WriteOff /\ ParseOff /\ LayoutOff

NextRender ==
    \E p \in DOMAIN rp :
        \/ PrintDepTree(p)
        \/ printDepTreeLevel(p)
        \/ printDepTreeLevelMark(p)
        \/ printDepTreeLevelDep(p)
        \/ printDepTreeLevelReturn(p)
        \/ PrintDepTreeReturn(p)

SpecRender == InitRender /\ [][NextRender]_vars

\* the goroutine that renders keeps running
FairSpecRender == SpecRender /\ WF_vars(NextRender)

\* two goroutines call PrintDepTree on the graphs the graph operations build
\* over Names
RenderParGraphs == {gr \in InputGraphs : DOMAIN gr.nodes \subseteq Names}

InitRenderPar ==
    /\ RenderInit(TwoCallers, RenderParGraphs)
    /\ GraphOff /\ CopyOff /\ WalkOff /\ SyncOff /\ IngestOff /\ ScanOff /\ WriteOff /\ ParseOff /\ LayoutOff

\* each of the two goroutines calls PrintDepTree once
NextRenderPar ==
    \/ \E p \in DOMAIN rp :
          \/ rp[p].pc = "idle" /\ PrintDepTree(p)
          \/ printDepTreeLevel(p)
          \/ printDepTreeLevelMark(p)
          \/ printDepTreeLevelDep(p)
          \/ printDepTreeLevelReturn(p)
          \/ PrintDepTreeReturn(p)
    \/ ConcurrentMapAccess

SpecRenderPar == InitRenderPar /\ [][NextRenderPar]_vars

(***************************************************************************)
(* SpecFull: calls of PrintFullDepTree(graph) by one caller. The caller's  *)
(* Graph struct orig holds the maps 1 and 2 of the heap; fullGraph is the  *)
(* struct Copy returns. PrintFullDepTree is written against the Interface  *)
(* whose AddEdge(source, target Node) registers absent endpoints           *)
(* (graph.go:872-885), which is AddEdgeAndNodes of the set-backed Graph.   *)
(***************************************************************************)
\* node("_all")
AllRoot == MkNode(<<"_", "a", "l", "l">>, "node")

RECURSIVE AddRootEdges(_, _)
\* for _, n := range fullGraph.GetNodes() { ... }, nodes being the slice
AddRootEdges(gr, nodes) ==
    IF nodes = << >> THEN gr
    ELSE AddRootEdges(IF GetDependants(gr, String(Head(nodes))) = {}
                      THEN AddEdgeAndNodes(gr, AllRoot, Head(nodes))
                      ELSE gr,
                      Tail(nodes))

FullInit ==
    /\ \E gr \in InputGraphs : heap = (1 :> gr.nodes) @@ (2 :> gr.edges)
    /\ orig = [nodes |-> 1, edges |-> 2]
    /\ copy = NoGraph
    /\ clast = "New"
    /\ rgraph = New
    /\ nodeFinished = {}
    /\ rp = [p \in MainCaller |-> NotRendering]

\* PrintFullDepTree up to the call of printDepTreeLevel
PrintFullDepTree(p) ==
    /\ ~RenderPanicked
    /\ rp[p].pc \in {"idle", "done"}
    /\ IF GetNodes(Load(heap, orig)) = {}
       THEN /\ rp' = [rp EXCEPT ![p] = [pc |-> "done", full |-> TRUE, stack |-> << >>,
                                        fields |-> << >>]]
            /\ UNCHANGED <<heap, copy, clast, rgraph, nodeFinished>>
       ELSE LET r == Copy(heap, orig)
            IN \E nodes \in Orders(GetNodes(Load(r.heap, r.ret))) :
                  LET fullGraph == AddRootEdges(Load(r.heap, r.ret), nodes)
                  IN /\ heap' = Store(r.heap, r.ret, fullGraph)
                     /\ copy' = r.ret
                     /\ clast' = "Copy"
                     /\ rgraph' = Load(heap', copy')
                     /\ nodeFinished' = {}
                     /\ rp' = [rp EXCEPT ![p] =
                                 [pc |-> "run", full |-> TRUE,
                                  stack |-> <<LevelCall(GetNode(fullGraph, String(AllRoot)))>>,
                                  fields |-> << >>]]
    /\ UNCHANGED <<orig, graphVars, walkVars, syncVars, ingestVars, scanVars, writeVars, parseVars, layoutVars>>

\* printDepTreeLevel has returned to PrintFullDepTree: out[3:] drops the rows
\* of the root (a leaf root has one row only: the slice expression panics);
\* wrapToStdout then panics when "stty size" fails
PrintFullDepTreeReturn(p) ==
    /\ ~RenderPanicked
    /\ rp[p].pc = "run" /\ rp[p].stack = << >> /\ rp[p].full
    /\ IF rp[p].fields[1].dependencies = << >>
       THEN rp' = [rp EXCEPT ![p].pc = "panicked"]
       ELSE \E sized \in BOOLEAN :
               rp' = [rp EXCEPT ![p].pc = IF sized THEN "done" ELSE "wrapPanicked",
                                ![p].fields = Tail(@)]
    /\ UNCHANGED <<rgraph, nodeFinished, graphVars, copyVars, walkVars, syncVars, ingestVars, scanVars, writeVars, parseVars, layoutVars>>

InitFull ==
    /\ FullInit
    /\ GraphOff /\ WalkOff /\ SyncOff /\ IngestOff /\ ScanOff /\ WriteOff /\ ParseOff /\ LayoutOff

NextFull ==
    \E p \in DOMAIN rp :
        \/ PrintFullDepTree(p)
        \/ printDepTreeLevel(p)
        \/ printDepTreeLevelMark(p)
        \/ printDepTreeLevelDep(p)
        \/ printDepTreeLevelReturn(p)
        \/ PrintFullDepTreeReturn(p)

SpecFull == InitFull /\ [][NextFull]_vars

(***************************************************************************)
(* SpecParse: one call syntax.Parse(s).                                    *)
(***************************************************************************)
MakeCall ==
    << [GraphPrefix |-> << >>,
        EdgePrefix |-> <<"$", "(", "c", "a", "l", "l", " ", "D", "E", "P", "E", "N", "D", "_", "A", "L", "L", ",">>,
        SourceDelimiter |-> << >>, EdgeInfix |-> <<",">>, TargetDelimiter |-> <<",">>,
        EdgeSuffix |-> <<")">>, GraphSuffix |-> << >>, StripWhitespace |-> TRUE],
       [GraphPrefix |-> << >>,
        EdgePrefix |-> <<"$", "(", "c", "a", "l", "l", " ", "A", "L", "L", "_", "S", "P", "E", "C", "S", ",">>,
        SourceDelimiter |-> <<",">>, EdgeInfix |-> <<")", ":">>, TargetDelimiter |-> <<" ">>,
        EdgeSuffix |-> << >>, GraphSuffix |-> << >>, StripWhitespace |-> TRUE] >>

(***************************************************************************)
(* SpecPresets: one call New().FromScanner(scanner, ...) with each of the  *)
(* presets syntax.Makefile, syntax.MakeCall and syntax.Dot, on texts whose *)
(* lines carry the edge markers of the presets in several places.          *)
(***************************************************************************)
DependAll == MakeCall[1].EdgePrefix

PresetLineChoices ==
    { <<"d", "i", "g", "r", "a", "p", "h", "{">>,
      <<"a", "-", ">", "b", ";">>,
      <<"b", "-", ">", "a", ";", "}">>,
      <<"a", ";", "-", ">", "b">>,
      <<"a", ":", "b", " ", VerticalTab>>,
      DependAll \o <<"a", ",", "b", ")">>,
      DependAll \o <<"a", ")">>,
      <<")">> \o DependAll \o <<"a", ",", "b">> }

PresetReaders ==
    {ReaderOf(JoinLines(ls), "EOF") : ls \in SeqsUpTo(PresetLineChoices, MaxScanLines)}

\* the presets, the list with one pointer twice that syntax.Parse("Dot,Dot")
\* gives, and the call without a syntax
PresetSyntaxLists == {<<Makefile>>, MakeCall, <<Dot>>, <<Dot, Dot>>, << >>}

InitPresets ==
    /\ IngestStart(PresetReaders, PresetSyntaxLists)
    /\ GraphOff /\ CopyOff /\ WalkOff /\ SyncOff /\ ScanOff /\ RenderOff /\ WriteOff /\ ParseOff /\ LayoutOff

NextPresets == IngestLine \/ IngestEnd

SpecPresets == InitPresets /\ [][NextPresets]_vars

\* strings.IndexAny(s, chars) at or after the 0-based position i
RECURSIVE IndexAnyFrom(_, _, _)
IndexAnyFrom(s, chars, i) ==
    IF i >= Len(s) THEN -1
    ELSE IF s[i + 1] \in chars THEN i
    ELSE IndexAnyFrom(s, chars, i + 1)

IndexAny(s, chars) == IndexAnyFrom(s, chars, 0)

\* the characters of ",{}\"'"
ParseSpecials == {",", "{", "}", "\"", "'"}

\* the case lists of the two switches over a name
MakefileNames == {<<"M", "a", "k", "e", "f", "i", "l", "e">>, <<"m", "a", "k", "e", "f", "i", "l", "e">>, <<"M", "a", "k", "e">>, <<"m", "a", "k", "e">>, <<"m">>}
MakeCallNames == {<<"M", "a", "k", "e", "C", "a", "l", "l">>, <<"m", "a", "k", "e", "c", "a", "l", "l">>, <<"c">>}
DotNames == {<<"D", "o", "t">>, <<"d", "o", "t">>, <<"d">>}

\* a nil error
NilError == << >>

\* errors.New(text + detail)
NewError(text, detail) == <<text>> \o detail

\* what a return of Parse gives; panic is a run-time panic instead
ParseReturn(result, err) == [result |-> result, err |-> err, panic |-> FALSE]
ParsePanic(result) == [result |-> result, err |-> NilError, panic |-> TRUE]

\* the switch over a name, with MakeCall appended as its first definition only
NameSwitchFirstOfMakeCall(token) ==
    IF token \in MakefileNames THEN [ok |-> TRUE, add |-> <<Makefile>>]
    ELSE IF token \in MakeCallNames THEN [ok |-> TRUE, add |-> <<MakeCall[1]>>]
    ELSE IF token \in DotNames THEN [ok |-> TRUE, add |-> <<Dot>>]
    ELSE [ok |-> FALSE, add |-> << >>]

\* the switch over a name: the presets it appends, ok FALSE in the default case
NameSwitch(token) ==
    IF token \in MakefileNames THEN [ok |-> TRUE, add |-> <<Makefile>>]
    ELSE IF token \in MakeCallNames THEN [ok |-> TRUE, add |-> MakeCall]
    ELSE IF token \in DotNames THEN [ok |-> TRUE, add |-> <<Dot>>]
    ELSE [ok |-> FALSE, add |-> << >>]

\* &Syntax{stringList[0], ..., stringList[6], true}
SyntaxOf(stringList) ==
    [GraphPrefix |-> stringList[1], EdgePrefix |-> stringList[2],
     SourceDelimiter |-> stringList[3], EdgeInfix |-> stringList[4],
     TargetDelimiter |-> stringList[5], EdgeSuffix |-> stringList[6],
     GraphSuffix |-> stringList[7], StripWhitespace |-> TRUE]

RECURSIVE ParseLoop(_, _, _)
\* the for loop and the switch behind it
ParseLoop(s, result, stringList) ==
    LET index == IndexAny(s, ParseSpecials)
    IN IF index > 0
       THEN LET c == s[index + 1]
                token == Slice(s, 0, index)
                rest == Slice(s, index + 1, Len(s))
            IN IF c = ","
               THEN IF NameSwitch(token).ok
                    THEN ParseLoop(rest, result \o NameSwitch(token).add, stringList)
                    ELSE ParseReturn(result, NewError("Invalid syntax name: ", token))
               ELSE IF c = "{"
               THEN IF index # 0
                    THEN ParseReturn(result,
                            NewError("Unexpected character(s) before opening bracket: '",
                                     token \o <<"'">>))
                    ELSE ParseLoop(rest, result, stringList)
               ELSE IF c = "}"
               THEN IF Len(stringList) # 6
                    THEN ParseReturn(result,
                            NewError("Brackets didn't contain the 7 syntax elements", << >>))
                    ELSE IF Len(stringList) < 7
                    THEN ParsePanic(result)
                    ELSE ParseLoop(rest, Append(result, SyntaxOf(stringList)), << >>)
               ELSE IF c = "\""
               THEN LET endIndex == Index(s, <<"\"">>)
                    IN ParseLoop(Slice(s, endIndex + 1, Len(s)), result,
                                 Append(stringList, Slice(s, 0, endIndex)))
               ELSE ParseLoop(rest, result, stringList)
       ELSE IF NameSwitch(s).ok
            THEN ParseReturn(result \o NameSwitch(s).add, NilError)
            ELSE ParseReturn(result, NewError("Invalid syntax name: ", s))

Parse(s) == ParseLoop(s, << >>, << >>)

\* number of pieces the strings Parse is given are put together from
MaxParsePieces == 3

InlineDefinition ==
    <<"{", "\"", "f", "1", "\"", ",", "\"", "f", "2", "\"", ",", "\"", "f", "3", "\"", ",", "\"", "f", "4", "\"", ",", "\"", "f", "5", "\"", ",", "\"", "f", "6", "\"", ",", "\"", "f", "7", "\"", ",", "t", "r", "u", "e", "}">>

ParsePieces ==
    MakefileNames \cup MakeCallNames \cup DotNames
    \cup {<<"M", "A", "K", "E", "F", "I", "L", "E">>, <<"D", "O", "T">>, <<"m", "a", "k", "e", "C", "a", "l", "l">>, <<"x">>,
          <<",">>, <<"{">>, <<"}">>, <<"\"">>, <<"'">>,
          InlineDefinition,
          <<"a", "\"", "a", "\"", "a", "\"", "a", "\"", "a", "\"", "a", "\"", "a">>}

ParseInputs(n) == {Concat(ps) : ps \in SeqsUpTo(ParsePieces, n)}

NotCalled == [called |-> FALSE, result |-> << >>, err |-> NilError, panic |-> FALSE]

ParseInit ==
    /\ pin \in ParseInputs(MaxParsePieces)
    /\ pout = NotCalled

DoParse ==
    /\ ~pout.called
    /\ LET r == Parse(pin)
       IN pout' = [called |-> TRUE, result |-> r.result, err |-> r.err, panic |-> r.panic]
    /\ UNCHANGED <<pin, graphVars, copyVars, walkVars, syncVars, ingestVars, scanVars, renderVars, writeVars, layoutVars>>

InitParse ==
    /\ ParseInit
    /\ GraphOff /\ CopyOff /\ WalkOff /\ SyncOff /\ IngestOff /\ ScanOff /\ RenderOff /\ WriteOff /\ LayoutOff

NextParse == DoParse

SpecParse == InitParse /\ [][NextParse]_vars

(***************************************************************************)
(* Claims about the Graph operations (checked under Spec).                 *)
(***************************************************************************)
Registered(gr) == DOMAIN gr.nodes

\* C1: as long as no call has failed (Running), every edge of the edge set has its
\* source name and its target name registered in the node map (self-edges of
\* a removed node included).
C1_EdgesHaveRegisteredEndpoints ==
    Running =>
        \A e \in g.edges : e.source \in Registered(g) /\ e.target \in Registered(g)

\* C2: RemoveNode(x) returns true exactly when x was registered, and after
\* it returned true GetNode(x) is absent, HasEdge(x,y) and HasEdge(y,x) are
\* false for every y (y = x included) and x is among the dependencies and
\* the dependants of no other node.
C2_RemoveNodeRemovesIncidentEdges ==
    last.op = "RemoveNode" =>
        LET x == last.names[1]
        IN /\ (last.ret = "true") <=> (x \in Registered(last.pre))
           /\ last.ret = "true" =>
                /\ GetNode(g, x) = NilNode
                /\ \A y \in Names : ~HasEdge(g, x, y) /\ ~HasEdge(g, y, x)
                /\ \A y \in Names \ {x} :
                      /\ x \notin {String(n) : n \in GetDependencies(g, y)}
                      /\ x \notin {String(n) : n \in GetDependants(g, y)}

\* C8: after AddEdgeAndNodes(a,b), for all a and b (a = b included) and any
\* prior graph, HasEdge(a,b) holds, GetNode(a) and GetNode(b) are present,
\* no edge other than a->b was added, and the node count grew by the number
\* of endpoints that were not registered before.
C8_AddEdgeAndNodesPost ==
    last.op = "AddEdgeAndNodes" =>
        LET a == String(last.nodes[1])
            b == String(last.nodes[2])
        IN /\ HasEdge(g, a, b)
           /\ GetNode(g, a) # NilNode
           /\ GetNode(g, b) # NilNode
           /\ g.edges = last.pre.edges \cup {MkEdge(a, b)}
           /\ Cardinality(Registered(g)) =
                 Cardinality(Registered(last.pre))
                    + Cardinality({a, b} \ Registered(last.pre))
           /\ \A n \in Registered(last.pre) : GetNode(g, n) = GetNode(last.pre, n)

\* C8 witness: AddEdgeAndNodes(a,a) on a graph in which a was not registered
\* and another node was
C8_Witness ==
    /\ last.op = "AddEdgeAndNodes"
    /\ last.nodes[1] = last.nodes[2]
    /\ String(last.nodes[1]) \notin Registered(last.pre)
    /\ Registered(last.pre) # {}
    /\ HasEdge(g, String(last.nodes[1]), String(last.nodes[1]))

(***************************************************************************)
(* Claims about Copy (checked under SpecCopy).                             *)
(***************************************************************************)
\* C9: Copy returns a graph with the node set and the edge set the original
\* has at the call and leaves the original as it is; afterwards a mutation
\* of the original leaves the copy's nodes and edges unchanged, and a
\* mutation of the copy leaves the original's unchanged.
C9_CopyIsIndependentSnapshot ==
    [][ /\ clast' = "Copy" =>
              /\ Load(heap', copy') = Load(heap, orig)
              /\ Load(heap', orig') = Load(heap, orig)
        /\ (clast' = "orig" /\ copy # NoGraph) =>
              /\ copy' = copy
              /\ Load(heap', copy') = Load(heap, copy)
        /\ clast' = "copy" =>
              /\ orig' = orig
              /\ Load(heap', orig') = Load(heap, orig) ]_vars

\* C9 witness: the original was changed after the copy was taken (a node of
\* the copy, with an edge, is no longer registered in the original)
C9_Witness ==
    /\ clast = "orig"
    /\ copy # NoGraph
    /\ \E n \in Registered(Load(heap, copy)) :
          /\ n \notin Registered(Load(heap, orig))
          /\ \E e \in Load(heap, copy).edges : e.source = n \/ e.target = n

(***************************************************************************)
(* Claims about GetDependencyGraph (checked under SpecWalk, FairSpecWalk). *)
(***************************************************************************)
RECURSIVE ReachFrom(_, _)
\* the names reachable from the names in S along edges of gr
ReachFrom(gr, S) ==
    LET next == S \cup {e.target : e \in {f \in gr.edges : f.source \in S}}
    IN IF next = S THEN S ELSE ReachFrom(gr, next)

\* C3: for a registered root the graph returned by GetDependencyGraph has as
\* nodes exactly the nodes reachable from root along outgoing edges (root
\* included) and as edges exactly the edges of the graph whose source is
\* one of them (self-edges and edges into included nodes are kept, nodes
\* that only depend on root are not).
C3_DependencyGraphIsReachablePart ==
    (WalkDone /\ wroot \in Registered(wg)) =>
        /\ wpc = "returned"
        /\ LET reach == ReachFrom(wg, {wroot})
           IN /\ Registered(wres) = reach
              /\ \A n \in reach : GetNode(wres, n) = GetNode(wg, n)
              /\ wres.edges = {e \in wg.edges : e.source \in reach}

\* C3 witness: a finished walk from a root that has a dependant outside the
\* result, a self-edge and an edge into an already included node
C3_Witness ==
    /\ wpc = "returned"
    /\ wroot \in Registered(wg)
    /\ HasEdge(wres, wroot, wroot)
    /\ \E n \in Registered(wres) \ {wroot} : HasEdge(wres, n, wroot)
    /\ \E d \in Registered(wg) \ Registered(wres) : HasEdge(wg, d, wroot)

NoDuplicates(q) == \A i, j \in 1..Len(q) : q[i] = q[j] => i = j

\* C4: GetDependencyGraph terminates on every graph (self-edges and cycles
\* included): no name is put into the result more than once, the work list
\* never holds an edge twice and grows only in a step that includes a name
\* for the first time, the call reaches its return, and when it has returned
\* for a registered root every name reachable from the root has been put
\* into the result exactly once (and no other name at all).
C4_WalkTerminates ==
    /\ [](wpc # "start" =>
            /\ \A n \in WalkNames : wadds[n] <= 1
            /\ NoDuplicates(wedges)
            /\ Len(wedges) <= Cardinality(wg.edges))
    /\ [][(wpc = "loop" /\ Len(wedges') > Len(wedges)) =>
            \E n \in WalkNames : wadds[n] = 0 /\ wadds'[n] = 1]_vars
    /\ []((WalkDone /\ wroot \in Registered(wg)) =>
            /\ \A n \in ReachFrom(wg, {wroot}) : wadds[n] = 1
            /\ \A n \in WalkNames \ ReachFrom(wg, {wroot}) : wadds[n] = 0)
    /\ <>WalkDone

\* C4 witness: a finished walk over a cycle of two nodes, each with a self-edge
C4_Witness ==
    /\ wpc = "returned"
    /\ \E a \in WalkNames, b \in WalkNames \ {wroot} :
          /\ a = wroot
          /\ {MkEdge(a, a), MkEdge(a, b), MkEdge(b, a), MkEdge(b, b)} \subseteq wg.edges
          /\ wadds[a] = 1 /\ wadds[b] = 1

(***************************************************************************)
(* Claims about graph.Synced (checked under SpecSync).                     *)
(***************************************************************************)
\* p is between the return of its Lock/RLock and its deferred unlock
InCritical(p) == sp[p].pc = "cs"

\* C7: the critical section of a mutating method of Synced overlaps with
\* that of no other method, reading methods overlap with reading methods
\* only, and a method touches nodes and edges only while it holds the lock
\* in its mode.
C7_SyncedMutualExclusion ==
    /\ [](/\ \A p \in Procs : \A q \in Procs \ {p} :
                (InCritical(p) /\ InCritical(q)) =>
                    (sp[p].op \in ReadOps /\ sp[q].op \in ReadOps)
          /\ \A p \in Procs :
                InCritical(p) =>
                    IF sp[p].op \in WriteOps
                    THEN mu.w = p /\ mu.readers = {}
                    ELSE p \in mu.readers)
    /\ [][sg' # sg =>
            \E p \in Procs : /\ InCritical(p) /\ sp[p].op \in WriteOps
                             /\ mu.w = p /\ mu.readers = {}
                             /\ sp'[p].pc # "cs"]_vars

\* C7 witness: a mutating method waits in Lock while a reading method is in
\* its critical section
C7_Witness ==
    \E p \in Procs : \E q \in Procs \ {p} :
        /\ sp[p].pc = "lockWait" /\ sp[p].op = "RemoveNode"
        /\ sp[q].pc = "cs" /\ sp[q].op = "GetDependencyGraph"
        /\ sg.edges # {}

(***************************************************************************)
(* Claims about FromScanner (checked under SpecIngest).                    *)
(***************************************************************************)
\* the pieces of seg between the occurrences of the character d
Pieces(seg, d) ==
    {Slice(seg, a, b) : <<a, b>> \in
        {ab \in (0..Len(seg)) \X (0..Len(seg)) :
            /\ ab[1] <= ab[2]
            /\ ab[1] = 0 \/ seg[ab[1]] = d
            /\ ab[2] = Len(seg) \/ seg[ab[2] + 1] = d
            /\ \A k \in (ab[1] + 1)..ab[2] : seg[k] # d}}

\* piece without the white space around it
Stripped(piece) ==
    CHOOSE t \in {Slice(piece, a, b) : a \in 0..Len(piece), b \in 0..Len(piece)} :
        \E a \in 0..Len(piece) : \E b \in a..Len(piece) :
            /\ t = Slice(piece, a, b)
            /\ \A k \in 1..a : piece[k] \in WhiteSpace
            /\ \A k \in (b + 1)..Len(piece) : piece[k] \in WhiteSpace
            /\ t = << >> \/ (t[1] \notin WhiteSpace /\ t[Len(t)] \notin WhiteSpace)

\* the non-empty tokens of seg in the Makefile syntax
MakefileTokens(seg) == {Stripped(piece) : piece \in Pieces(seg, " ")} \ {<< >>}

\* the Makefile syntax matches every line with a colon
MakefileMatches(line) == \E i \in 1..Len(line) : line[i] = ":"

FirstColon(line) ==
    CHOOSE i \in 1..Len(line) : line[i] = ":" /\ \A j \in 1..(i - 1) : line[j] # ":"

SourceTokens(line) ==
    IF MakefileMatches(line) THEN MakefileTokens(SubSeq(line, 1, FirstColon(line) - 1)) ELSE {}

TargetTokens(line) ==
    IF MakefileMatches(line) THEN MakefileTokens(SubSeq(line, FirstColon(line) + 1, Len(line))) ELSE {}

CrossProduct(line) == {MkEdge(s, t) : s \in SourceTokens(line), t \in TargetTokens(line)}

Digit(d) == <<d>>

\* the level graph of TestGraph_FromScanner
TestNodes == {Digit(d) : d \in {"1", "2", "3", "4", "5", "6", "7"}}
TestEdges ==
    {MkEdge(Digit("1"), Digit(t)) : t \in {"2", "3"}}
        \cup {MkEdge(Digit(s), Digit(t)) : s \in {"2", "3"}, t \in {"4", "5", "6", "7"}}

\* the text of the test, read to its end, gives the level graph
TestTextGivesLevelGraph ==
    (iin.text = TestText /\ ipc = "returned") =>
        (Registered(ig) = TestNodes /\ ig.edges = TestEdges)

\* the loop body adds the cross product of the tokens of the line as edges,
\* and leaves the nodes that were registered as they are
LineAddsCrossProduct ==
    /\ ig'.edges = ig.edges \cup CrossProduct(iline')
    /\ \A n \in Registered(ig) : n \in Registered(ig') /\ ig'.nodes[n] = ig.nodes[n]
    /\ \A n \in Registered(ig') \ Registered(ig) : ig'.nodes[n] = MkNode(n, "node")

\* C10 as stated: each line adds exactly the edges of the cross product of
\* its non-empty source and target tokens and registers exactly the nodes
\* those tokens name; the text of the test gives the 7 nodes and 10 edges.
C10_LineRegistersAllTokens ==
    /\ []TestTextGivesLevelGraph
    /\ [][ipc' = "loop" =>
            /\ LineAddsCrossProduct
            /\ Registered(ig') =
                 Registered(ig) \cup SourceTokens(iline') \cup TargetTokens(iline')]_vars

\* C10 amended: each line adds exactly the edges of the cross product of its
\* non-empty source and target tokens and registers exactly the endpoints
\* of those edges (a token is registered only when the other side of the
\* line has a token too); the text of the test gives the 7 nodes and 10
\* edges.
C10_LineRegistersEndpoints ==
    /\ []TestTextGivesLevelGraph
    /\ [][ipc' = "loop" =>
            /\ LineAddsCrossProduct
            /\ Registered(ig') =
                 Registered(ig) \cup {e.source : e \in CrossProduct(iline')}
                                \cup {e.target : e \in CrossProduct(iline')}]_vars

\* C10 witness: the text of the test has been read to its end and the second
\* line has added its 2 x 4 edges
C10_Witness ==
    /\ iin.text = TestText /\ ipc = "returned"
    /\ Cardinality(CrossProduct(iline)) = 8
    /\ Cardinality(ig.edges) = 10

\* C6: when the reader has reported a read error by the time FromScanner
\* returns, the error FromScanner returns is not nil.
C6_ReadErrorIsReturned ==
    (ipc = "returned" /\ iscan.err = "err") => ierr # "nil"

(***************************************************************************)
(* Claims about Synced.FromScanner (checked under SpecScan).               *)
(***************************************************************************)
\* C5: when Synced.FromScanner has returned (with or without an error) the
\* tasks channel is closed and empty, every worker has left its loop, and
\* the edges of every body that was sent are in the graph.
C5_ReturnsAfterWorkersDrained ==
    ipc = "returned" =>
        /\ closed
        /\ tasks = << >>
        /\ \A w \in Workers : wk[w].pc = "exited"
        /\ waitGroup = 0
        /\ \A body \in dispatched : CrossProduct(body) \subseteq ig.edges

\* C5 witness: FromScanner has returned the read error after it had sent
\* two different bodies, and their edges are in the graph
C5_Witness ==
    /\ ipc = "returned" /\ ierr = "err"
    /\ Cardinality(dispatched) = 2
    /\ Cardinality(ig.edges) = 3

(***************************************************************************)
(* Claims about failing and missing calls (checked under Spec).            *)
(***************************************************************************)
\* C17: AddNode(node, targets...) registers node; it panics exactly when a
\* target is neither registered before the call nor node's own name;
\* otherwise the edges afterwards are those before plus node->t for each
\* target t, and no other node changes.
C17_AddNodeStrictTargets ==
    last.op = "AddNode" =>
        LET node == last.nodes[1]
            name == String(node)
            targets == {last.names[k] : k \in 1..Len(last.names)}
            missing == targets \ (Registered(last.pre) \cup {name})
        IN /\ name \in Registered(g) /\ g.nodes[name] = node
           /\ last.panicked = (missing # {})
           /\ Registered(g) = Registered(last.pre) \cup {name}
           /\ \A n \in Registered(last.pre) \ {name} : g.nodes[n] = last.pre.nodes[n]
           /\ ~last.panicked =>
                 g.edges = last.pre.edges \cup {MkEdge(name, t) : t \in targets}

\* C17 witness: AddNode of a name that was not registered, with itself and a
\* registered node as targets, has succeeded
C17_Witness ==
    /\ last.op = "AddNode" /\ ~last.panicked
    /\ String(last.nodes[1]) \notin Registered(last.pre)
    /\ Len(last.names) = 2 /\ last.names[1] = String(last.nodes[1])
    /\ last.names[2] # last.names[1]
    /\ MkEdge(last.names[1], last.names[1]) \in g.edges
    /\ MkEdge(last.names[2], last.names[1]) \notin g.edges

\* C18: AddEdge(source, target) panics exactly when source or target is not
\* registered, and then leaves the graph as it was; otherwise the edge
\* source->target is present afterwards and nothing else has changed.
C18_AddEdgeStrict ==
    last.op = "AddEdge" =>
        LET source == last.names[1]
            target == last.names[2]
            missing == {source, target} \ Registered(last.pre)
        IN /\ last.panicked = (missing # {})
           /\ last.panicked => g = last.pre
           /\ ~last.panicked =>
                 /\ HasEdge(g, source, target)
                 /\ g.edges \ {MkEdge(source, target)} = last.pre.edges \ {MkEdge(source, target)}
                 /\ g.nodes = last.pre.nodes

\* C18 witness: AddEdge of a registered source to a target that is not
\* registered has panicked
C18_Witness ==
    /\ last.op = "AddEdge" /\ last.panicked
    /\ last.names[1] \in Registered(last.pre)
    /\ last.names[2] \notin Registered(last.pre)

\* C19: for a name that is not registered, GetNode gives nil, HasEdge,
\* RemoveEdge and RemoveNode give false, GetDependencies and GetDependants
\* give nothing, and RemoveEdge and RemoveNode leave the graph as it is.
C19_MissesOfUnregisteredNames ==
    Running =>
        \A name \in Names \ Registered(g) :
            /\ GetNode(g, name) = NilNode
            /\ RemoveNode(g, name) = [g |-> g, ret |-> FALSE]
            /\ GetDependencies(g, name) = {}
            /\ GetDependants(g, name) = {}
            /\ \A other \in Names :
                  /\ ~HasEdge(g, name, other) /\ ~HasEdge(g, other, name)
                  /\ RemoveEdge(g, name, other) = [g |-> g, ret |-> FALSE]
                  /\ RemoveEdge(g, other, name) = [g |-> g, ret |-> FALSE]

\* C20: RemoveEdge(s, t) returns whether s->t was present; afterwards s->t
\* is absent, every other edge (t->s too) is as before, and so are the nodes.
C20_RemoveEdgeRemovesOneEdge ==
    last.op = "RemoveEdge" =>
        LET source == last.names[1]
            target == last.names[2]
        IN /\ last.ret = Ret(HasEdge(last.pre, source, target))
           /\ ~HasEdge(g, source, target)
           /\ g.edges = last.pre.edges \ {MkEdge(source, target)}
           /\ g.nodes = last.pre.nodes

\* C20 witness: RemoveEdge(s, t) has returned true and the reverse edge t->s
\* is still there
C20_Witness ==
    /\ last.op = "RemoveEdge" /\ last.ret = "true"
    /\ last.names[1] # last.names[2]
    /\ HasEdge(g, last.names[2], last.names[1])

(***************************************************************************)
(* Claims about the active syntaxes and the Dot preset (checked under      *)
(* SpecDot).                                                               *)
(***************************************************************************)
\* the n-th scanned line contains the GraphPrefix / GraphSuffix of syntax i
HasGraphPrefix(i, n) == Contains(ilines'[n], isyn[i].GraphPrefix)
HasGraphSuffix(i, n) ==
    isyn[i].GraphSuffix # << >> /\ Contains(ilines'[n], isyn[i].GraphSuffix)

\* the n-th scanned line contains the three edge markers of syntax i
HasEdgeMarkers(i, n) ==
    /\ Contains(ilines'[n], isyn[i].EdgePrefix)
    /\ Contains(ilines'[n], isyn[i].EdgeInfix)
    /\ Contains(ilines'[n], isyn[i].EdgeSuffix)

\* as C11 puts it: line n has the GraphPrefix, or a line before it had and no
\* line from that one up to line n - 1 had the GraphSuffix
ActiveAsStated(i, n) ==
    \/ HasGraphPrefix(i, n)
    \/ \E j \in 1..(n - 1) :
          /\ HasGraphPrefix(i, j)
          /\ \A k \in j..(n - 1) : ~HasGraphSuffix(i, k)

RECURSIVE LookedAt(_, _)
\* line n gets as far as syntax i: no syntax before i in the list has been
\* matched against line n and found its edge markers in it; and syntax i is
\* then matched against line n if line n has its GraphPrefix, or a line
\* before that got as far as i had it, and no line from that one up to line
\* n - 1 that got as far as i had the GraphSuffix
LookedAt(i, n) ==
    LET getsTo(k) == \A h \in 1..(i - 1) : ~(LookedAt(h, k) /\ HasEdgeMarkers(h, k))
    IN /\ getsTo(n)
       /\ \/ HasGraphPrefix(i, n)
          \/ \E j \in 1..(n - 1) :
                /\ getsTo(j) /\ HasGraphPrefix(i, j)
                /\ \A k \in j..(n - 1) : getsTo(k) => ~HasGraphSuffix(i, k)

\* a step of the loop that has scanned a line
ScannedLine == Len(ilines') = Len(ilines) + 1

\* C11 as stated: a syntax is matched against a line only if the line has
\* its GraphPrefix or an earlier line had and no line since, up to the
\* previous one, had its GraphSuffix; a syntax with an empty GraphPrefix is
\* matched against every line.
C11_ActiveBetweenPrefixAndSuffix ==
    [][ScannedLine =>
          \A i \in 1..Len(isyn) :
              /\ i \in itried' => ActiveAsStated(i, Len(ilines'))
              /\ isyn[i].GraphPrefix = << >> => i \in itried']_vars

\* C11 amended: the same, counting for a syntax only the lines that no
\* earlier syntax of the list has matched: such a line neither activates nor
\* deactivates the syntax and is not matched against it. A syntax is
\* matched against exactly the lines LookedAt describes.
C11_ActiveAmongLinesLeftOver ==
    [][ScannedLine =>
          \A i \in 1..Len(isyn) : (i \in itried') = LookedAt(i, Len(ilines'))]_vars

\* C11 witness: with Makefile before Dot, a line has been matched against
\* Dot after the line with the GraphSuffix was taken by Makefile
C11_Witness ==
    /\ isyn = <<Makefile, Dot>>
    /\ Len(ilines) = 3
    /\ ilines[1] = Dot.GraphPrefix
    /\ ilines[2] = <<"b", ":", "}">>
    /\ ilines[3] = <<"a", "-", ">", "b", ";">>
    /\ itried = {1, 2}
    /\ HasEdge(ig, <<"a">>, <<"b">>)

\* the statement of the line, for the Dot preset alone: the text before the
\* first "->" and the text between it and the last ";"
DotSource(line) == TrimSpace(Slice(line, 0, Index(line, Dot.EdgeInfix)))
DotTarget(line) ==
    TrimSpace(Slice(line, Index(line, Dot.EdgeInfix) + 2, LastIndex(line, Dot.EdgeSuffix)))

\* C12: with the Dot preset a matched statement adds the one edge from the
\* trimmed text before "->" to the trimmed text after it.
C12_DotSingleSourceAndTarget ==
    [][(ScannedLine /\ isyn = <<Dot>> /\ 1 \in itried' /\ HasEdgeMarkers(1, Len(ilines'))
          /\ Index(iline', Dot.EdgeInfix) + 2 <= LastIndex(iline', Dot.EdgeSuffix))
        => ig'.edges = ig.edges \cup
              {MkEdge(DotSource(iline'), DotTarget(iline'))}]_vars

(***************************************************************************)
(* Claims about line continuation (checked under SpecIngest).              *)
(***************************************************************************)
\* the physical lines of text: the pieces between line ends (the piece
\* after the last line end counts when it is not empty)
PhysicalLines(text) ==
    LET pieces == Split(text, <<"\n">>)
    IN IF pieces[Len(pieces)] = << >> THEN SubSeq(pieces, 1, Len(pieces) - 1) ELSE pieces

EndsInBackslash(line) == line # << >> /\ line[Len(line)] = "\\"

RECURSIVE JoinContinued(_)
\* the logical lines: a line ending in a backslash loses it and is joined
\* with the line after it, again and again
JoinContinued(lines) ==
    IF lines = << >> THEN << >>
    ELSE IF ~EndsInBackslash(Head(lines)) THEN <<Head(lines)>> \o JoinContinued(Tail(lines))
    ELSE LET cut == SubSeq(Head(lines), 1, Len(Head(lines)) - 1)
         IN IF Len(lines) = 1 THEN JoinContinued(<<cut>>)
            ELSE JoinContinued(<<cut \o lines[2]>> \o SubSeq(lines, 3, Len(lines)))

\* C16: the lines FromScanner matches its syntaxes against are the logical
\* lines of the text: each physical line ending in a backslash is joined,
\* without the backslash, with the line after it, repeatedly.
C16_ContinuedLinesAreJoined ==
    (ipc = "returned" /\ iin.err = "EOF") =>
        ilines = JoinContinued(PhysicalLines(iin.text))

(***************************************************************************)
(* Claims about writing a graph and reading it back (checked under         *)
(* SpecWrite).                                                             *)
(***************************************************************************)
\* no name reaches itself along the edges of gr
Acyclic(gr) ==
    \A e \in gr.edges : e.source \notin ReachFrom(gr, {e.target})

\* every node has a dependency or a dependant
NoIsolatedNode(gr) ==
    \A n \in DOMAIN gr.nodes :
        GetDependencies(gr, n) # {} \/ GetDependants(gr, n) # {}

\* C13: when FromScanner has returned from reading, with the Dot preset, the
\* text WriteDot wrote for an acyclic graph without isolated nodes, the graph
\* it built has the node names and the edge set of the graph that was written.
C13_WriteDotRoundTrip ==
    (ipc = "returned" /\ Acyclic(wsrc) /\ NoIsolatedNode(wsrc))
        => /\ Registered(ig) = Registered(wsrc)
           /\ ig.edges = wsrc.edges

(***************************************************************************)
(* Claims about the tree rendering (checked under SpecRender,              *)
(* FairSpecRender and SpecRenderPar).                                      *)
(***************************************************************************)
\* the field at k is not the first one of its node
LaterOccurrence(fields, k) == \E j \in 1..(k - 1) : fields[j].node = fields[k].node

\* the number of fields of n that were made with dependencies to go into
Expansions(fields, n) ==
    Cardinality({k \in 1..Len(fields) : fields[k].node = n /\ fields[k].dependencies # << >>})

\* the last field made by the calls below the call that made the field at k
RECURSIVE SubtreeEnd(_, _, _)
SubtreeEnd(fields, k, j) ==
    IF j < Len(fields) /\ fields[j + 1].depth > fields[k].depth
    THEN SubtreeEnd(fields, k, j + 1)
    ELSE j

\* the nodes of the fields made by the calls the call of the field at k made
RECURSIVE ChildrenFrom(_, _, _)
ChildrenFrom(fields, k, j) ==
    IF j > SubtreeEnd(fields, k, k) THEN << >>
    ELSE (IF fields[j].depth = fields[k].depth + 1 THEN <<fields[j].node>> ELSE << >>)
         \o ChildrenFrom(fields, k, j + 1)

\* first occurrences are in full, later ones are '&' leaves
MarkedAsAlone(gr, fields, complete) ==
    \A k \in 1..Len(fields) :
        IF LaterOccurrence(fields, k)
        THEN /\ fields[k].name = <<" ", "&">> \o String(fields[k].node) \o <<" ">>
             /\ fields[k].dependencies = << >>
             /\ SubtreeEnd(fields, k, k) = k
        ELSE /\ fields[k].name = <<" ">> \o String(fields[k].node) \o <<" ">>
             /\ fields[k].dependencies \in Orders(GetDependencies(gr, String(fields[k].node)))
             /\ complete => ChildrenFrom(fields, k, k + 1) = fields[k].dependencies

\* C14: in a render by one caller, every node's dependencies are gone into at
\* most once, the first field of a node has the plain name and is followed by
\* the fields of all its dependencies, every later field of the node is the
\* name with the '&' prefix and has no fields below it; and every render that
\* has started comes to its end, whatever the graph (cyclic ones included):
\* the calls of printDepTreeLevel all return and PrintDepTree prints the rows,
\* or panics in wrapToStdout when the width of the terminal cannot be read.
C14_RenderTerminatesExpandingOnce ==
    /\ [](\A p \in DOMAIN rp :
            /\ \A n \in RenderStarts : Expansions(rp[p].fields, n) <= 1
            /\ MarkedAsAlone(rgraph, rp[p].fields, rp[p].pc = "done"))
    /\ \A p \in MainCaller : (rp[p].pc = "run") ~> (rp[p].pc \in {"done", "wrapPanicked"})

\* a finished render of a graph with a cycle, a node with two dependencies and
\* a dependency shared by two nodes: it has '&' leaves
C14_Witness ==
    \E p \in DOMAIN rp :
        /\ rp[p].pc = "done"
        /\ ~Acyclic(rgraph)
        /\ \E k \in 1..Len(rp[p].fields) : Len(rp[p].fields[k].dependencies) = 2
        /\ \E k \in 1..Len(rp[p].fields) :
              /\ LaterOccurrence(rp[p].fields, k)
              /\ \E j \in 1..(k - 1) :
                    /\ rp[p].fields[j].node = rp[p].fields[k].node
                    /\ rp[p].fields[j].depth # rp[p].fields[k].depth
              /\ GetDependencies(rgraph, String(rp[p].fields[k].node)) # {}

\* C15: whatever another caller of PrintDepTree does meanwhile, the fields a
\* caller has made are marked as in a render that runs alone: the first field
\* of a node has the plain name and the node's dependencies, every later one
\* is the '&' leaf, and no node's dependencies are gone into twice.
C15_ConcurrentRendersIndependent ==
    \A p \in DOMAIN rp :
        /\ \A n \in RenderStarts : Expansions(rp[p].fields, n) <= 1
        /\ MarkedAsAlone(rgraph, rp[p].fields, rp[p].pc = "done")

(***************************************************************************)
(* Claims about syntax.Parse (checked under SpecParse).                    *)
(***************************************************************************)
KnownNames == MakefileNames \cup MakeCallNames \cup DotNames

\* the definitions a known name stands for
PresetsNamed(name) ==
    IF name \in MakefileNames THEN <<Makefile>>
    ELSE IF name \in MakeCallNames THEN <<MakeCall[1], MakeCall[2]>>
    ELSE <<Dot>>

RECURSIVE PresetsOfList(_)
PresetsOfList(names) ==
    IF names = << >> THEN << >>
    ELSE PresetsNamed(Head(names)) \o PresetsOfList(Tail(names))

\* s is a comma-separated list of known names
IsListOfKnownNames(s) ==
    \A i \in 1..Len(Split(s, <<",">>)) : Split(s, <<",">>)[i] \in KnownNames

\* C21: for a comma-separated list of known preset names Parse returns, with a
\* nil error, the definitions of the names in the order written (two for a
\* name of MakeCall, one for the others); for "Makefile,Dot" these are the
\* Makefile preset and the Dot preset, field for field.
C21_ParseListOfPresets ==
    pout.called =>
        /\ IsListOfKnownNames(pin) =>
              /\ ~pout.panic /\ pout.err = NilError
              /\ pout.result = PresetsOfList(Split(pin, <<",">>))
        /\ pin = <<"M", "a", "k", "e", "f", "i", "l", "e", ",", "D", "o", "t">> =>
              /\ ~pout.panic /\ pout.err = NilError
              /\ pout.result =
                   << [GraphPrefix |-> << >>, EdgePrefix |-> << >>,
                       SourceDelimiter |-> <<" ">>, EdgeInfix |-> <<":">>,
                       TargetDelimiter |-> <<" ">>, EdgeSuffix |-> << >>,
                       GraphSuffix |-> << >>, StripWhitespace |-> TRUE],
                      [GraphPrefix |-> <<"d", "i", "g", "r", "a", "p", "h", "{">>, EdgePrefix |-> << >>,
                       SourceDelimiter |-> << >>, EdgeInfix |-> <<"-", ">">>,
                       TargetDelimiter |-> << >>, EdgeSuffix |-> <<";">>,
                       GraphSuffix |-> <<"}">>, StripWhitespace |-> TRUE] >>

\* Parse has returned for a list that names MakeCall before another preset
C21_Witness ==
    /\ pout.called
    /\ IsListOfKnownNames(pin)
    /\ Len(Split(pin, <<",">>)) = 2
    /\ Split(pin, <<",">>)[1] \in MakeCallNames
    /\ Len(pout.result) = 3

\* the strings that hold the inline definition, alone or behind a known name
InlineInputs ==
    {InlineDefinition} \cup {name \o <<",">> \o InlineDefinition : name \in KnownNames}

\* C22: for the inline definition {"f1","f2","f3","f4","f5","f6","f7",true},
\* alone or behind a preset name and a comma, Parse returns with a nil error a
\* list whose last definition has the seven strings f1..f7 as GraphPrefix,
\* EdgePrefix, SourceDelimiter, EdgeInfix, TargetDelimiter, EdgeSuffix and
\* GraphSuffix.
C22_InlineDefinitionAccepted ==
    (pout.called /\ pin \in InlineInputs) =>
        /\ ~pout.panic /\ pout.err = NilError
        /\ pout.result # << >>
        /\ LET given == pout.result[Len(pout.result)]
           IN /\ given.GraphPrefix = <<"f", "1">>
              /\ given.EdgePrefix = <<"f", "2">>
              /\ given.SourceDelimiter = <<"f", "3">>
              /\ given.EdgeInfix = <<"f", "4">>
              /\ given.TargetDelimiter = <<"f", "5">>
              /\ given.EdgeSuffix = <<"f", "6">>
              /\ given.GraphSuffix = <<"f", "7">>

UpperLetters == <<"A", "B", "C", "D", "E", "F", "G", "H", "I", "J", "K", "L", "M", "N", "O", "P", "Q", "R", "S", "T", "U", "V", "W", "X", "Y", "Z">>
LowerLetters == <<"a", "b", "c", "d", "e", "f", "g", "h", "i", "j", "k", "l", "m", "n", "o", "p", "q", "r", "s", "t", "u", "v", "w", "x", "y", "z">>

\* the string in lower case
ToLower(str) ==
    [k \in 1..Len(str) |->
        IF \E j \in 1..26 : UpperLetters[j] = str[k]
        THEN LowerLetters[CHOOSE j \in 1..26 : UpperLetters[j] = str[k]]
        ELSE str[k]]

\* the preset names in lower case
CanonicalNames == {<<"m", "a", "k", "e", "f", "i", "l", "e">>, <<"m", "a", "k", "e", "c", "a", "l", "l">>, <<"d", "o", "t">>}

\* C23: when every name of a comma-separated list is, in lower case, the name
\* of a preset, Parse returns with a nil error what it returns for the list
\* in lower case: the definitions of the presets in the order written.
C23_NamesMatchedIgnoringCase ==
    LET names == Split(pin, <<",">>)
    IN (pout.called /\ \A i \in 1..Len(names) : ToLower(names[i]) \in CanonicalNames) =>
          /\ ~pout.panic /\ pout.err = NilError
          /\ pout.result = PresetsOfList([i \in 1..Len(names) |-> ToLower(names[i])])

\* C24: Parse never panics; and it returns an error for a string without
\* special characters that is not a known name, for a closing brace reached
\* with a number of collected strings other than 7, and for characters in
\* front of an opening brace.
C24_ParseNeverPanics ==
    pout.called =>
        /\ ~pout.panic
        /\ (IndexAny(pin, ParseSpecials) = -1 /\ pin \notin KnownNames) => pout.err # NilError
        /\ (IndexAny(pin, ParseSpecials) > 0 /\ pin[IndexAny(pin, ParseSpecials) + 1] \in {"{", "}"})
              => pout.err # NilError

(***************************************************************************)
(* Claims about the dispatch of a line (checked under SpecMatch).          *)
(***************************************************************************)
\* syntax i is active for the line scanned in this step (the line has its
\* GraphPrefix, or the syntax was active before) and the line has its three
\* edge markers
TakesLine(i) ==
    /\ Contains(iline', isyn[i].GraphPrefix) \/ isyn[i] \in iactive
    /\ Contains(iline', isyn[i].EdgePrefix)
    /\ Contains(iline', isyn[i].EdgeInfix)
    /\ Contains(iline', isyn[i].EdgeSuffix)

\* the text of the line between the end of the first EdgePrefix and the last
\* EdgeSuffix
BodyFor(i) ==
    Slice(iline', Index(iline', isyn[i].EdgePrefix) + Len(isyn[i].EdgePrefix),
          LastIndex(iline', isyn[i].EdgeSuffix))

\* C25: in a step that scans a line, the edges added are those of one body:
\* the body of the first syntax of the list that is active for the line and
\* has EdgePrefix, EdgeInfix and EdgeSuffix in it; no syntax behind that one
\* is tried on the line; and nothing is added when there is no such syntax.
C25_FirstMatchingSyntaxWins ==
    [][(ScannedLine /\ ipc' = "loop") =>
          IF \E i \in 1..Len(isyn) : TakesLine(i)
          THEN LET f == CHOOSE i \in 1..Len(isyn) :
                            TakesLine(i) /\ \A h \in 1..(i - 1) : ~TakesLine(h)
               IN /\ f \in itried' /\ \A i \in itried' : i <= f
                  /\ ig' = addEdges(ig, scanDependencies(BodyFor(f), isyn[f]).calls)
          ELSE ig' = ig]_vars

\* a line with the edge markers of both syntaxes has gone to Dot, the first
\* one of the list, while Makefile would have taken it too
C25_Witness ==
    /\ isyn = <<Dot, Makefile>>
    /\ ipc = "loop"
    /\ iline = <<"1", ":", "-", ">", "2", ";">>
    /\ itried = {1}
    /\ HasEdge(ig, <<"1", ":">>, <<"2">>)
    /\ ~HasEdge(ig, <<"1">>, <<"-", ">", "2", ";">>)

(***************************************************************************)
(* Claims about whole-graph rendering (checked under SpecFull).            *)
(***************************************************************************)
\* the registered names of gr no registered node depends on
RootNames(gr) == {n \in DOMAIN gr.nodes : GetDependants(gr, n) = {}}

\* gr with the node _all and an edge from it to each of the names
WithRoot(gr, names) ==
    [nodes |-> IF names = {} THEN gr.nodes
               ELSE [n \in DOMAIN gr.nodes \cup {String(AllRoot)} |->
                        IF n \in DOMAIN gr.nodes THEN gr.nodes[n] ELSE AllRoot],
     edges |-> gr.edges \cup {MkEdge(String(AllRoot), n) : n \in names}]

\* C26: no step of PrintFullDepTree changes the caller's graph (its nodes and
\* its edges are after the return what they were before the call); the graph
\* that is rendered is held in maps of its own and is the caller's graph with
\* the node _all and an edge from _all to exactly the nodes that have no
\* dependants; and when there is such a node the render starts from _all.
C26_FullRenderWorksOnCopy ==
    [][/\ Load(heap', orig') = Load(heap, orig)
       /\ \A p \in DOMAIN rp :
             (rp[p].pc # "run" /\ rp'[p].pc = "run") =>
                /\ {copy'.nodes, copy'.edges} \cap {orig'.nodes, orig'.edges} = {}
                /\ rgraph' = Load(heap', copy')
                /\ rgraph' = WithRoot(Load(heap, orig), RootNames(Load(heap, orig)))
                /\ RootNames(Load(heap, orig)) # {} =>
                      rp'[p].stack = <<LevelCall(AllRoot)>>]_vars

\* PrintFullDepTree has returned for a graph with an edge and two nodes
\* without dependants: both hang below _all in the graph that was rendered,
\* and the caller's graph has neither _all nor an edge from it
C26_Witness ==
    \E p \in DOMAIN rp :
        /\ rp[p].pc = "done" /\ rp[p].full
        /\ Cardinality(RootNames(Load(heap, orig))) = 2
        /\ Load(heap, orig).edges # {}
        /\ \A n \in RootNames(Load(heap, orig)) : HasEdge(rgraph, String(AllRoot), n)
        /\ String(AllRoot) \notin DOMAIN Load(heap, orig).nodes
        /\ \A e \in Load(heap, orig).edges : e.source # String(AllRoot)
        /\ Len(rp[p].fields) >= 3

(***************************************************************************)
(* Claims about the text WriteGraph writes (checked under SpecWrite).      *)
(***************************************************************************)
\* EdgePrefix + quoted(source) + EdgeInfix + quoted(target) + EdgeSuffix
Statement(syntax, e) ==
    syntax.EdgePrefix \o <<"\"">> \o e.source \o <<"\"">> \o syntax.EdgeInfix
    \o <<"\"">> \o e.target \o <<"\"">> \o syntax.EdgeSuffix

\* the text is GraphPrefix, the statements of the edges in E, one line each
\* and each once, and GraphSuffix
WritesStatementsOf(text, E) ==
    LET ls == Split(text, <<"\n">>)
    IN /\ Len(ls) = Cardinality(E) + 2
       /\ ls[1] = Dot.GraphPrefix
       /\ ls[Len(ls)] = Dot.GraphSuffix
       /\ {ls[k] : k \in 2..(Len(ls) - 1)} = {Statement(Dot, e) : e \in E}

\* C27: the text WriteDot writes is the line GraphPrefix, then one line
\* EdgePrefix "source" EdgeInfix "target" EdgeSuffix for each edge of the
\* graph and no other line (so no node without an outgoing edge is the
\* source of a statement), then GraphSuffix; and the graph is left as it was.
C27_OneStatementPerEdge ==
    [][ipc = "write" =>
          /\ WritesStatementsOf(iin'.text, wsrc.edges)
          /\ wsrc' = wsrc]_vars

(***************************************************************************)
(* Claims about AddEdgeAndNodes with nodes of two types (checked under     *)
(* SpecKinds).                                                             *)
(***************************************************************************)
\* the step is a call of AddEdgeAndNodes
CallsAddEdgeAndNodes == last' # last /\ last'.op = "AddEdgeAndNodes"

\* the step is a call with the names of the call before it
RepeatsCall ==
    /\ CallsAddEdgeAndNodes /\ last.op = "AddEdgeAndNodes"
    /\ String(last'.nodes[1]) = String(last.nodes[1])
    /\ String(last'.nodes[2]) = String(last.nodes[2])

\* C28: a call of AddEdgeAndNodes does not panic and leaves under every name
\* that was registered the node object that was registered; and a call that
\* repeats the call before it (same names, whatever the node objects) leaves
\* the node map and the edge set as that call left them.
C28_AddEdgeAndNodesIdempotent ==
    [][/\ CallsAddEdgeAndNodes =>
             /\ ~last'.panicked
             /\ \A n \in Registered(g) : GetNode(g', n) = GetNode(g, n)
       /\ RepeatsCall => g' = g]_vars

\* AddEdgeAndNodes(a, b) has been called a second time, with nodes of another
\* type than those the first call registered
C28_Witness ==
    /\ last.op = "AddEdgeAndNodes"
    /\ last.pre = g
    /\ String(last.nodes[1]) # String(last.nodes[2])
    /\ HasEdge(last.pre, String(last.nodes[1]), String(last.nodes[2]))
    /\ GetNode(g, String(last.nodes[1])) # last.nodes[1]
    /\ GetNode(g, String(last.nodes[2])) # last.nodes[2]

(***************************************************************************)
(* Claims about input without edges (checked under SpecIngest).            *)
(***************************************************************************)
\* no line that was scanned has the three edge markers of one of the syntaxes
NoLineMatches ==
    \A n \in 1..Len(ilines) : \A i \in 1..Len(isyn) :
        ~(/\ Contains(ilines[n], isyn[i].EdgePrefix)
          /\ Contains(ilines[n], isyn[i].EdgeInfix)
          /\ Contains(ilines[n], isyn[i].EdgeSuffix))

\* C29: when FromScanner is through with an input that is read without error
\* and that is empty or has no line with the edge markers of a given syntax,
\* it has returned a nil error and the new graph has no node and no edge.
C29_NoMatchLeavesGraphEmpty ==
    (ipc # "loop" /\ iin.err = "EOF" /\ NoLineMatches) =>
        /\ ipc = "returned"
        /\ ierr = "nil"
        /\ ig = New

\* FromScanner has returned for a text of two lines without edge markers, the
\* second one without a line end
C29_Witness ==
    /\ ipc = "returned" /\ iin.err = "EOF"
    /\ Len(ilines) = 2 /\ ilines[1] # << >> /\ ilines[2] # << >>
    /\ iin.text[Len(iin.text)] # "\n"
    /\ NoLineMatches
    /\ ig = New
(***************************************************************************)
(* C30: on every input read without error and for every number of workers  *)
(* from 1 on, Synced.FromScanner returns under fair scheduling. The        *)
(* channel tasks never holds more than its capacity numWorkers; a send     *)
(* that waits on the full channel goes through; a worker only exits on     *)
(* the closed, drained channel, and every worker has exited when           *)
(* FromScanner returns.                                                    *)
(***************************************************************************)
AllWorkersExited == \A w \in Workers : wk[w].pc = "exited"

C30_ScanReturnsUnderFairness ==
    /\ [](Len(tasks) <= numWorkers)
    /\ [](\A w \in Workers : wk[w].pc = "exited" => closed /\ tasks = << >>)
    /\ [](ipc = "returned" => AllWorkersExited)
    /\ (ipc = "send" /\ Len(tasks) = numWorkers) ~> (ipc # "send")
    /\ (iin.err = "EOF") ~> (ipc = "returned" /\ ierr = "nil" /\ AllWorkersExited)

\* the caller waits to send a third task while both workers have yet to
\* receive the two that fill the channel
C30_Witness ==
    /\ iin.err = "EOF"
    /\ numWorkers = MaxWorkers
    /\ ipc = "send"
    /\ Len(tasks) = numWorkers
    /\ \A w \in Workers : wk[w].pc = "recv"

(***************************************************************************)
(* C31: for the same reader and the same syntaxes, Synced.FromScanner      *)
(* returns, whatever the interleaving of its workers, the graph (nodes     *)
(* and edges) and the error that the sequential Graph.FromScanner returns  *)
(* on a fresh graph.                                                       *)
(***************************************************************************)
C31_ConcurrentEqualsSequential ==
    ipc = "returned" =>
        LET seq == FromScanner(NewScanner(iin), isyn, New)
        IN /\ ~seq.panic
           /\ ig = seq.g
           /\ ierr = seq.err

\* both workers took part in a result of several tasks
C31_Witness ==
    /\ ipc = "returned" /\ ierr = "nil"
    /\ numWorkers = MaxWorkers
    /\ Cardinality(dispatched) >= 2
    /\ Cardinality(ig.edges) = 3
    /\ ig = FromScanner(NewScanner(iin), isyn, New).g

(***************************************************************************)
(* C32: in the Graph with a node map and an edge slice, after              *)
(* RemoveNode(x) has returned true no edge of g.edges has x as its source  *)
(* or its target, whatever the order of the slice (the last edge incident  *)
(* to x, several incident edges next to each other).                       *)
(***************************************************************************)
IncidentEdges(edges, name) ==
    {k \in 1..Len(edges) : String(edges[k].source) = name \/ String(edges[k].target) = name}

C32_RemoveNodeRemovesIncidentEdges ==
    (last.op = "RemoveNode" /\ last.ret = "true") =>
        IncidentEdges(g.edges, last.names[1]) = {}

(***************************************************************************)
(* C33: in the Graph with a node slice and the AddEdge that registers      *)
(* absent endpoints, no call of AddEdge makes a name occur twice in        *)
(* g.nodes: it appends an endpoint only if no node of that name is in the  *)
(* slice, self-edges included.                                             *)
(***************************************************************************)
NoNameTwice(nodes) ==
    \A j \in 1..Len(nodes), k \in 1..Len(nodes) :
        String(nodes[j]) = String(nodes[k]) => j = k

\* the names of the nodes of the slice, each as often as it occurs
NameCount(nodes, name) == Cardinality({k \in 1..Len(nodes) : String(nodes[k]) = name})

C33_AddEdgeKeepsNamesUnique ==
    [][last'.op = "AddEdge" =>
          /\ NoNameTwice(g.nodes) => NoNameTwice(g'.nodes)
          /\ \A name \in Names :
                NameCount(g.nodes, name) > 0 =>
                    NameCount(g'.nodes, name) = NameCount(g.nodes, name)]_vars

(***************************************************************************)
(* C34: in the set-backed Graph, after any sequence of operations and for  *)
(* all names a and b: HasEdge(a, b) exactly if a node named b is among     *)
(* GetDependencies(a), exactly if a node named a is among                  *)
(* GetDependants(b).                                                       *)
(***************************************************************************)
NamesOf(nodes) == {String(n) : n \in nodes}

C34_EdgesAgreeWithDependencyLists ==
    \A a \in Names, b \in Names :
        /\ HasEdge(g, a, b) <=> b \in NamesOf(GetDependencies(g, a))
        /\ HasEdge(g, a, b) <=> a \in NamesOf(GetDependants(g, b))

(***************************************************************************)
(* C35: whenever FromScanner has found EdgePrefix, EdgeInfix and           *)
(* EdgeSuffix of a syntax in a line, the end of the first EdgePrefix is    *)
(* not behind the start of the last EdgeSuffix and the body between them   *)
(* contains EdgeInfix: taking the body and splitting it at the infix are   *)
(* defined, and no line ends the ingestion with a panic.                   *)
(***************************************************************************)
C35_DispatchedBodyIsDefined ==
    /\ Len(isyn) > 0 => ipc # "panicked"
    /\ \A i \in itried :
          LET syntax == isyn[i]
              from == Index(iline, syntax.EdgePrefix) + Len(syntax.EdgePrefix)
              suffixIndex == LastIndex(iline, syntax.EdgeSuffix)
          IN (/\ Contains(iline, syntax.EdgePrefix)
              /\ Contains(iline, syntax.EdgeInfix)
              /\ Contains(iline, syntax.EdgeSuffix)) =>
                 /\ from <= suffixIndex
                 /\ Contains(Slice(iline, from, suffixIndex), syntax.EdgeInfix)

(***************************************************************************)
(* C36: the logical lines the scanner yields with scanLineWithEscape do    *)
(* not depend on how the reader hands out the text: read in two pieces,    *)
(* a text gives the lines it gives when read in one piece, a line ending   *)
(* in a backslash being joined with the line behind it also when that      *)
(* line is not in the data yet.                                            *)
(***************************************************************************)
RECURSIVE ScannedLines(_)
\* the tokens of the calls of Scan until it returns false
ScannedLines(s) ==
    LET sc == Scan(s)
    IN IF sc.ok /\ Err(sc.s) = "nil" THEN <<sc.token>> \o ScannedLines(sc.s) ELSE << >>

C36_LinesIndependentOfBuffering ==
    ipc = "returned" => ilines = ScannedLines(NewScanner(ReaderOf(iin.text, iin.err)))

(***************************************************************************)
(* C37: for every graph with a node, one in which every node has a         *)
(* dependant included, PrintFullDepTree finds the node _all in the copy    *)
(* after the loop that looks for the nodes without dependants: the render  *)
(* starts from a root that is not nil, does not panic, and every node of   *)
(* the graph is shown at least once.                                       *)
(***************************************************************************)
ShownNodes(p) == {rp[p].fields[k].node : k \in 1..Len(rp[p].fields)}

C37_FullRenderShowsEveryNode ==
    \A p \in DOMAIN rp :
        (rp[p].full /\ GetNodes(Load(heap, orig)) # {}) =>
            /\ rp[p].pc # "panicked"
            /\ \A k \in 1..Len(rp[p].stack) : rp[p].stack[k].n # NilNode
            /\ rp[p].pc = "done" => GetNodes(Load(heap, orig)) \subseteq ShownNodes(p)

(***************************************************************************)
(* C38: when AddNode(node, t1..tk) panics because ti is the first target   *)
(* that is not registered, node is registered and the edges node->t1 ..    *)
(* node->t(i-1) are in the graph and stay there; no edge to ti or to a     *)
(* later target has been added, and nothing else has changed.              *)
(***************************************************************************)
\* the index of the first target that is not registered once node is
FirstUnregistered(nodes, targetNames) ==
    CHOOSE i \in 1..Len(targetNames) :
        /\ targetNames[i] \notin DOMAIN nodes
        /\ \A k \in 1..(i - 1) : targetNames[k] \in DOMAIN nodes

C38_FailingAddNodeKeepsEarlierEdges ==
    (last.op = "AddNode" /\ last.panicked) =>
        LET node == last.nodes[1]
            nodes == MapPut(last.pre.nodes, String(node), node)
            i == FirstUnregistered(nodes, last.names)
        IN /\ g.nodes = nodes
           /\ g.edges = last.pre.edges
                           \cup {MkEdge(String(node), last.names[k]) : k \in 1..(i - 1)}

\* AddNode has failed at its second target after adding a new edge to the
\* first, and a later target was registered
C38_Witness ==
    /\ last.op = "AddNode" /\ last.panicked
    /\ Len(last.names) = MaxArgs
    /\ last.names[1] \in DOMAIN g.nodes
    /\ last.names[2] \notin DOMAIN g.nodes
    /\ MkEdge(String(last.nodes[1]), last.names[1]) \in g.edges \ last.pre.edges

(***************************************************************************)
(* SpecLayout: the rows printDepTreeLevel builds (graph_test.go). A row is *)
(* a *string: nil or a string. out is a slice of rows; a call returns the  *)
(* rows and the width of the field it has laid out. The order in which     *)
(* GetDependencies lists the dependencies is the order of a range over a   *)
(* map, chosen anew by every call: the orders are given as an input, one   *)
(* for each node (one call of printDepTreeLevel at most uses the           *)
(* dependencies of a node, the first one that reaches it). PrintDepTree    *)
(* passes the rows through wrapToStdout, which cuts them at the width of   *)
(* the terminal stty reports, and prints what it returns.                  *)
(***************************************************************************)
\* the names of the graphs that are laid out: two short ones and one whose
\* field is wider than the fields of the two others together
LayoutNames == {<<"a">>, <<"b">>, <<"w", "i", "d", "e", "r">>}

NilRow == [nil |-> TRUE, s |-> << >>]
Row(str) == [nil |-> FALSE, s |-> str]

\* strings.Repeat(" ", count)
spaces(count) == [k \in 1..count |-> " "]

insertIntoString(s, offset, insertion) ==
    IF s.nil THEN Row(spaces(offset) \o insertion)
    ELSE IF offset > Len(s.s)
         THEN Row(s.s \o spaces(offset - Len(s.s)) \o insertion)
         ELSE Row(SubSeq(s.s, 1, offset) \o insertion \o SubSeq(s.s, offset + 1, Len(s.s)))

RECURSIVE printDepTreeArrows(_, _, _, _, _)
\* returns line1 and line2 with one connector per midpoint
printDepTreeArrows(line1, line2, fieldstart, fieldlen, midpoints) ==
    IF midpoints = << >> THEN <<line1, line2>>
    ELSE LET midpoint == Head(midpoints)
         IN IF midpoint < fieldstart
            THEN printDepTreeArrows(insertIntoString(line1, midpoint + 2, <<"/">>),
                                    insertIntoString(line2, midpoint + 1, <<"V">>),
                                    fieldstart, fieldlen, Tail(midpoints))
            ELSE IF midpoint < fieldstart + fieldlen
            THEN printDepTreeArrows(insertIntoString(line1, midpoint, <<"|">>),
                                    insertIntoString(line2, midpoint, <<"V">>),
                                    fieldstart, fieldlen, Tail(midpoints))
            ELSE printDepTreeArrows(insertIntoString(line1, midpoint - 2, <<"\\">>),
                                    insertIntoString(line2, midpoint - 1, <<"V">>),
                                    fieldstart, fieldlen, Tail(midpoints))

\* g.GetDependencies(n.String()) as the slice the range over g.nodes gives
\* when it visits the names in the order given for n
DependenciesInOrder(gr, n, order) ==
    LET IsDependency(name) == name \in DOMAIN gr.nodes /\ MkEdge(String(n), name) \in gr.edges
        visited == SelectSeq(order[String(n)], IsDependency)
    IN [k \in 1..Len(visited) |-> gr.nodes[visited[k]]]

\* for len(out) < 3 { out = append(out, nil) }
PadToThree(out) ==
    IF Len(out) < 3 THEN out \o [k \in 1..(3 - Len(out)) |-> NilRow] ELSE out

\* for i, mid := range depMids: the midpoints left of the middle of the name
\* move by offsetLeft, the others by offsetRight
ShiftMids(depMids, middle, offsetLeft, offsetRight) ==
    [i \in 1..Len(depMids) |->
        IF depMids[i] < middle THEN depMids[i] + offsetLeft ELSE depMids[i] + offsetRight]

RECURSIVE printDepTreeLevelOut(_, _, _, _, _, _)
RECURSIVE printDependencies(_, _, _, _, _, _, _, _)
\* the loop "for i, dep := range dependencies" of printDepTreeLevel, from the
\* dependencies that are left: the rows, depWidth, depMids and nodeFinished
\* after it
printDependencies(gr, dependencies, out, rightOffset, depWidth, depMids, fin, order) ==
    IF dependencies = << >>
    THEN [out |-> out, depWidth |-> depWidth, depMids |-> depMids, fin |-> fin]
    ELSE LET r == printDepTreeLevelOut(gr, Head(dependencies), out, rightOffset + depWidth, fin, order)
         IN printDependencies(gr, Tail(dependencies), r.out, rightOffset, depWidth + r.width,
                              Append(depMids, rightOffset + depWidth + (r.width \div 2)),
                              r.fin, order)

\* printDepTreeLevel(g, n, out, rightOffset) with nodeFinished = fin: modout,
\* width and nodeFinished after the call. In the branch len(name) > depWidth
\* the loop "for _, strptr := range out" assigns the shifted row to its own
\* variable strptr only: the rows of out stay as they are.
printDepTreeLevelOut(gr, n, out, rightOffset, fin, order) ==
    LET isFinished == finished(fin, n)
        name == NameField(n, isFinished)
        dependencies == IF isFinished THEN << >> ELSE DependenciesInOrder(gr, n, order)
        fin1 == fin \cup {n}
    IN IF dependencies = << >>
       THEN [out |-> IF Len(out) = 0 THEN <<Row(spaces(rightOffset) \o name)>>
                     ELSE [out EXCEPT ![1] = insertIntoString(out[1], rightOffset, name)],
             width |-> Len(name), fin |-> fin1]
       ELSE LET modout == PadToThree(out)
                d == printDependencies(gr, dependencies, SubSeq(modout, 4, Len(modout)),
                                       rightOffset, 0, << >>, fin1, order)
                modout2 == SubSeq(modout, 1, 3) \o d.out
                depWidth == d.depWidth
            IN IF Len(name) > depWidth
               THEN LET offsetLeft == (Len(name) - depWidth) \div 2
                        offsetRight == (Len(name) - depWidth + 1) \div 2
                        depMids == ShiftMids(d.depMids, rightOffset + (Len(name) \div 2),
                                             offsetLeft, offsetRight)
                        arrows == printDepTreeArrows(modout2[2], modout2[3], rightOffset,
                                                     Len(name), depMids)
                    IN [out |-> [modout2 EXCEPT
                                    ![1] = insertIntoString(modout2[1], rightOffset, name),
                                    ![2] = arrows[1], ![3] = arrows[2]],
                        width |-> Len(name), fin |-> d.fin]
               ELSE LET arrows == printDepTreeArrows(modout2[2], modout2[3],
                                        rightOffset + ((depWidth - Len(name)) \div 2),
                                        Len(name), d.depMids)
                        padded == spaces((depWidth - Len(name)) \div 2) \o name
                                  \o spaces((depWidth - Len(name) + 1) \div 2)
                    IN [out |-> [modout2 EXCEPT
                                    ![1] = insertIntoString(modout2[1], rightOffset, padded),
                                    ![2] = arrows[1], ![3] = arrows[2]],
                        width |-> Len(padded), fin |-> d.fin]

\* the graphs that are laid out: every name registered, any edges
LayoutGraphs ==
    {[nodes |-> [n \in LayoutNames |-> MkNode(n, "node")], edges |-> E] :
        E \in SUBSET {MkEdge(s, t) : s \in LayoutNames, t \in LayoutNames}}

\* what getStdoutWidth returns: an error (-1 when stty fails, 0 when strconv.Atoi
\* rejects what it wrote), or the number of columns (some terminals report none)
StdoutWidths == {0, 5, 6}
SttyOutcomes ==
    {[width |-> w, err |-> TRUE] : w \in {-1, 0}}
        \cup {[width |-> w, err |-> FALSE] : w \in StdoutWidths}

\* the values PrintDepTree and wrapToStdout panic with (the text of the error
\* of stty follows the second one), and the runtime error of *out[index] and
\* *lineptr on a nil row
NoPanic == "nil"
StartIsNil == "printDepTree: start should not be nil!"
NoSizeOfStdout == "printDepTree: unable to get size of stdout: "
NilDereference == "runtime error: invalid memory address or nil pointer dereference"

\* "printDepTree: size of stdout is zero!", the line wrapToStdout writes with
\* println on a terminal without columns
SizeOfStdoutIsZero ==
    <<"p", "r", "i", "n", "t", "D", "e", "p", "T", "r", "e", "e", ":", " ",
      "s", "i", "z", "e", " ", "o", "f", " ", "s", "t", "d", "o", "u", "t",
      " ", "i", "s", " ", "z", "e", "r", "o", "!">>

\* the inner loop of wrapToStdout: the rows from index up to height that
\* are longer than the terminal keep their first stdoutWidth columns, what
\* follows is appended as a row of its own
RECURSIVE wrapRows(_, _, _, _)
wrapRows(out, index, height, stdoutWidth) ==
    IF index > height THEN [out |-> out, panic |-> NoPanic]
    ELSE IF out[index].nil THEN [out |-> out, panic |-> NilDereference]
    ELSE LET line == out[index].s
         IN IF Len(line) > stdoutWidth
            THEN wrapRows([out EXCEPT ![index] = Row(SubSeq(line, 1, stdoutWidth))]
                              \o <<Row(SubSeq(line, stdoutWidth + 1, Len(line)))>>,
                          index + 1, height, stdoutWidth)
            ELSE wrapRows(out, index + 1, height, stdoutWidth)

\* the outer loop of wrapToStdout: as long as the width that is left
\* exceeds the terminal, an empty row is appended and the rows added since
\* the last pass are wrapped (startHeight counts the rows already passed)
RECURSIVE wrapLoop(_, _, _, _)
wrapLoop(out, width, startHeight, stdoutWidth) ==
    IF width > stdoutWidth
    THEN LET appended == out \o <<Row(<< >>)>>
             height == Len(appended)
             r == wrapRows(appended, startHeight + 1, height, stdoutWidth)
         IN IF r.panic # NoPanic THEN [out |-> r.out, panic |-> r.panic, printed |-> << >>]
            ELSE wrapLoop(r.out, width - stdoutWidth, height, stdoutWidth)
    ELSE [out |-> out, panic |-> NoPanic, printed |-> << >>]

\* wrapToStdout(out, width) from the return of getStdoutWidth on, which gave
\* stty: the rows it returns, the lines it has written with println and the
\* value it panicked with. It panics when stty failed, writes its line and
\* returns the rows as they are when the terminal reports no columns, and
\* wraps the rows otherwise.
wrapToStdout(out, width, stty) ==
    IF stty.err THEN [out |-> out, panic |-> NoSizeOfStdout, printed |-> << >>]
    ELSE IF stty.width <= 0
         THEN [out |-> out, panic |-> NoPanic, printed |-> <<SizeOfStdoutIsZero>>]
         ELSE wrapLoop(out, width, 0, stty.width)

\* for _, lineptr := range out { println(*lineptr) }: the lines written, and
\* the panic at the first nil row
RECURSIVE printRows(_, _)
printRows(out, printed) ==
    IF out = << >> THEN [printed |-> printed, panic |-> NoPanic]
    ELSE IF Head(out).nil THEN [printed |-> printed, panic |-> NilDereference]
    ELSE printRows(Tail(out), Append(printed, Head(out).s))

\* pc: where PrintDepTree is ("stty": in getStdoutWidth, waiting for the
\* stty it has started); out, width: what printDepTreeLevel returned;
\* printed: the lines written with println so far; panic: the value
\* PrintDepTree panicked with
NotLaidOut == [pc |-> "start", out |-> << >>, width |-> 0, printed |-> << >>, panic |-> NoPanic]

LayoutInit ==
    /\ lin \in [graph : LayoutGraphs,
                start : {MkNode(n, "node") : n \in LayoutNames},
                order : [LayoutNames -> Orders(LayoutNames)]]
               \cup {[graph |-> gr, start |-> NilNode, order |-> [n \in LayoutNames |-> o]] :
                        gr \in LayoutGraphs, o \in Orders(LayoutNames)}
    /\ lout = NotLaidOut

\* PrintDepTree(graph, start) up to the wait for stty: the panic on a nil
\* start, then nodeFinished = map[Node]struct{}{},
\* printDepTreeLevel(graph, start, make([]*string, 1), 0), the call of
\* wrapToStdout and in it of getStdoutWidth, which starts stty and waits
\* for it in cmd.Output()
DoPrintDepTree ==
    /\ lout.pc = "start"
    /\ IF lin.start = NilNode
       THEN lout' = [lout EXCEPT !.pc = "panicked", !.panic = StartIsNil]
       ELSE \E r \in {printDepTreeLevelOut(lin.graph, lin.start, <<NilRow>>, 0, {}, lin.order)} :
                lout' = [lout EXCEPT !.pc = "stty", !.out = r.out, !.width = r.width]
    /\ UNCHANGED <<lin, graphVars, copyVars, walkVars, syncVars, ingestVars, scanVars, renderVars, writeVars, parseVars>>

\* stty has ended: getStdoutWidth returns, wrapToStdout does its work and
\* PrintDepTree writes every row it got back with println
getStdoutWidthReturn ==
    /\ lout.pc = "stty"
    /\ \E stty \in SttyOutcomes :
       \E w \in {wrapToStdout(lout.out, lout.width, stty)} :
           IF w.panic # NoPanic
           THEN lout' = [lout EXCEPT !.pc = "panicked", !.panic = w.panic,
                                     !.printed = w.printed]
           ELSE \E p \in {printRows(w.out, w.printed)} :
                    lout' = [lout EXCEPT !.pc = IF p.panic = NoPanic THEN "done" ELSE "panicked",
                                         !.panic = p.panic, !.printed = p.printed]
    /\ UNCHANGED <<lin, graphVars, copyVars, walkVars, syncVars, ingestVars, scanVars, renderVars, writeVars, parseVars>>

InitLayout ==
    /\ LayoutInit
    /\ GraphOff /\ CopyOff /\ WalkOff /\ SyncOff /\ IngestOff /\ ScanOff /\ RenderOff /\ WriteOff /\ ParseOff

NextLayout ==
    \/ DoPrintDepTree
    \/ getStdoutWidthReturn

SpecLayout == InitLayout /\ [][NextLayout]_vars

\* the layout of the dependencies of the start node, as the loop of the
\* outermost call of printDepTreeLevel leaves it
ChildrenLayout ==
    printDependencies(lin.graph, DependenciesInOrder(lin.graph, lin.start, lin.order),
                      << >>, 0, 0, << >>, {lin.start}, lin.order)

\* the start node has dependencies and its name field is wider than their
\* combined width
WideName ==
    /\ lin.start # NilNode
    /\ DependenciesInOrder(lin.graph, lin.start, lin.order) # << >>
    /\ Len(NameField(lin.start, FALSE)) > ChildrenLayout.depWidth

\* half of what the name field is wider by (offsetLeft)
HalfDifference == (Len(NameField(lin.start, FALSE)) - ChildrenLayout.depWidth) \div 2

\* row is the row below moved to the right by count columns (spaces that
\* follow it are left open)
ShiftedBy(row, below, count) ==
    /\ ~row.nil
    /\ Len(row.s) >= count + Len(below.s)
    /\ SubSeq(row.s, 1, count + Len(below.s)) = spaces(count) \o below.s

\* row has the glyph at the column (columns count from 0)
GlyphAt(row, column, glyph) ==
    ~row.nil /\ column < Len(row.s) /\ row.s[column + 1] = glyph

\* C39: when the name field of an internal node is wider than the combined
\* width of its children, the rows that hold the children's layout are
\* shifted to the right by half the difference, and the connectors stand
\* above the midpoints of the children they point to (the midpoints of the
\* shifted layout)
C39_WideNameShiftsChildren ==
    (lout.pc # "start" /\ WideName) =>
        /\ Len(lout.out) = 3 + Len(ChildrenLayout.out)
        /\ \A k \in 1..Len(ChildrenLayout.out) :
               ShiftedBy(lout.out[3 + k], ChildrenLayout.out[k], HalfDifference)
        /\ \A i \in 1..Len(ChildrenLayout.depMids) :
               GlyphAt(lout.out[3], ChildrenLayout.depMids[i] + HalfDifference, "V")

\* a wide name was laid out over one short child with a half difference of
\* two columns
C39_WideCase ==
    /\ lout.pc # "start" /\ WideName
    /\ HalfDifference = 2
    /\ Len(ChildrenLayout.depMids) = 1

====
